---- MODULE Spec2Model ----
(***************************************************************************)
(* Model of the document extraction pipeline of Kash:                      *)
(*   - DocumentProcessingQueue (backend/app/api/routes/documents.py)       *)
(*   - DocumentProcessor       (backend/app/services/document_processor.py)*)
(*   - AIService field parsing (backend/app/services/ai_service.py)        *)
(*   - the upload, reprocess, update and delete endpoints                  *)
(*                                                                         *)
(* Strings that the code transforms (lower, upper, slicing, strptime) are  *)
(* sequences of one-character strings.  Optional values are sequences of   *)
(* length 0 (None / NULL) or 1.  Amounts are integers in cents.            *)
(***************************************************************************)
EXTENDS Integers, Sequences, FiniteSets, TLC

\* ------------------------------------------------------------------ bounds
MaxDocs == 2
MaxWorkers == 2
MaxReprocess == 1
MaxEdits == 1

DocIds == 1..MaxDocs
WorkerIds == 1..MaxWorkers

\* --------------------------------------------------------- string helpers
None == <<>>
Some(v) == <<v>>
IsNone(o) == o = <<>>
Val(o) == o[1]

Digits == {"0", "1", "2", "3", "4", "5", "6", "7", "8", "9"}

DigitVal(c) ==
    CASE c = "0" -> 0 [] c = "1" -> 1 [] c = "2" -> 2 [] c = "3" -> 3
      [] c = "4" -> 4 [] c = "5" -> 5 [] c = "6" -> 6 [] c = "7" -> 7
      [] c = "8" -> 8 [] c = "9" -> 9

\* str.lower() on the characters the model uses
LowerChar(c) ==
    CASE c = "C" -> "c" [] c = "E" -> "e" [] c = "I" -> "i" [] c = "L" -> "l"
      [] c = "O" -> "o" [] c = "P" -> "p" [] c = "R" -> "r" [] c = "T" -> "t"
      [] c = "U" -> "u" [] c = "V" -> "v" [] c = "D" -> "d" [] c = "S" -> "s"
      [] c = "F" -> "f"
      [] OTHER -> c

\* str.upper() on the characters the model uses
UpperChar(c) ==
    CASE c = "c" -> "C" [] c = "e" -> "E" [] c = "i" -> "I" [] c = "l" -> "L"
      [] c = "o" -> "O" [] c = "p" -> "P" [] c = "r" -> "R" [] c = "t" -> "T"
      [] c = "u" -> "U" [] c = "v" -> "V" [] c = "d" -> "D" [] c = "s" -> "S"
      [] c = "f" -> "F"
      [] OTHER -> c

Lower(s) == [i \in 1..Len(s) |-> LowerChar(s[i])]
Upper(s) == [i \in 1..Len(s) |-> UpperChar(s[i])]

\* s[:n]
Take(s, n) == IF Len(s) <= n THEN s ELSE SubSeq(s, 1, n)

\* the white space of str.strip() and of \s
Whitespace == {" ", "\n", "\t", "\r"}

\* str.strip()
RECURSIVE LStrip(_)
LStrip(s) == IF s # <<>> /\ Head(s) \in Whitespace THEN LStrip(Tail(s)) ELSE s
RECURSIVE RStrip(_)
RStrip(s) ==
    IF s # <<>> /\ s[Len(s)] \in Whitespace THEN RStrip(SubSeq(s, 1, Len(s) - 1)) ELSE s
Strip(s) == LStrip(RStrip(s))

\* column widths of the documents table
MerchantWidth == 255
LocationWidth == 255
CurrencyWidth == 3
ItemNameWidth == 255

\* ------------------------------------------- _parse_date / _parse_time
AllDigits(s) == s # <<>> /\ \A i \in 1..Len(s) : s[i] \in Digits

RECURSIVE NumVal(_)
NumVal(s) == IF s = <<>> THEN 0 ELSE 10 * NumVal(SubSeq(s, 1, Len(s) - 1)) + DigitVal(s[Len(s)])

\* the segments of s between occurrences of the character c
RECURSIVE SplitOn(_, _)
SplitOn(s, c) ==
    IF \A i \in 1..Len(s) : s[i] # c
    THEN <<s>>
    ELSE LET k == CHOOSE i \in 1..Len(s) : s[i] = c /\ \A j \in 1..(i - 1) : s[j] # c
         IN  <<SubSeq(s, 1, k - 1)>> \o SplitOn(SubSeq(s, k + 1, Len(s)), c)

IsLeap(y) == (y % 4 = 0 /\ y % 100 # 0) \/ y % 400 = 0
DaysInMonth(y, m) ==
    IF m = 2 THEN (IF IsLeap(y) THEN 29 ELSE 28)
    ELSE IF m \in {4, 6, 9, 11} THEN 30 ELSE 31

\* strptime directives: %Y is exactly four digits, %m %d %H %M %S one or two
MatchesY(g) == AllDigits(g) /\ Len(g) = 4 /\ NumVal(g) >= 1
MatchesM(g) == AllDigits(g) /\ Len(g) \in {1, 2} /\ NumVal(g) \in 1..12
MatchesD(g) == AllDigits(g) /\ Len(g) \in {1, 2} /\ NumVal(g) \in 1..31
MatchesHour(g) == AllDigits(g) /\ Len(g) \in {1, 2} /\ NumVal(g) \in 0..23
MatchesMinute(g) == AllDigits(g) /\ Len(g) \in {1, 2} /\ NumVal(g) \in 0..59

\* the formats of _parse_date in their priority order: separator, position of the year
DateFormats ==
    << [sep |-> "-", first |-> "Y"],
       [sep |-> "/", first |-> "D"],
       [sep |-> "-", first |-> "D"],
       [sep |-> ".", first |-> "D"],
       [sep |-> "/", first |-> "Y"] >>

\* datetime.strptime(s, fmt).date(), None standing for ValueError
StrpDate(s, fmt) ==
    LET g == SplitOn(s, fmt.sep)
        yg == IF fmt.first = "Y" THEN g[1] ELSE g[3]
        dg == IF fmt.first = "Y" THEN g[3] ELSE g[1]
    IN  IF Len(g) = 3 /\ MatchesY(yg) /\ MatchesM(g[2]) /\ MatchesD(dg)
           /\ NumVal(dg) <= DaysInMonth(NumVal(yg), NumVal(g[2]))
        THEN Some([y |-> NumVal(yg), m |-> NumVal(g[2]), d |-> NumVal(dg)])
        ELSE None

RECURSIVE TryDateFormats(_, _)
TryDateFormats(s, k) ==
    IF k > Len(DateFormats) THEN None
    ELSE IF ~IsNone(StrpDate(s, DateFormats[k])) THEN StrpDate(s, DateFormats[k])
    ELSE TryDateFormats(s, k + 1)

_parse_date(date_str) ==
    IF date_str = <<>> THEN None ELSE TryDateFormats(Strip(date_str), 1)

\* the formats of _parse_time in their priority order
TimeFormats ==
    << [sep |-> ":", parts |-> 2],
       [sep |-> ":", parts |-> 3],
       [sep |-> "h", parts |-> 2] >>

StrpTime(s, fmt) ==
    LET g == SplitOn(s, fmt.sep)
    IN  IF Len(g) = fmt.parts /\ MatchesHour(g[1]) /\ MatchesMinute(g[2])
           /\ (fmt.parts = 3 => MatchesMinute(g[3]))
        THEN Some([h |-> NumVal(g[1]), mi |-> NumVal(g[2]),
                   s |-> IF fmt.parts = 3 THEN NumVal(g[3]) ELSE 0])
        ELSE None

RECURSIVE TryTimeFormats(_, _)
TryTimeFormats(s, k) ==
    IF k > Len(TimeFormats) THEN None
    ELSE IF ~IsNone(StrpTime(s, TimeFormats[k])) THEN StrpTime(s, TimeFormats[k])
    ELSE TryTimeFormats(s, k + 1)

_parse_time(time_str) ==
    IF time_str = <<>> THEN None ELSE TryTimeFormats(Strip(time_str), 1)

\* ------------------------------------------------ JSON values of a reply
JNull == [t |-> "null"]
JStr(s) == [t |-> "str", v |-> s]
JNum(n) == [t |-> "num", v |-> n]
JBool(b) == [t |-> "bool", v |-> b]
JList(l) == [t |-> "list", v |-> l]
JObj(o) == [t |-> "obj", v |-> o]

\* isinstance(value, expected_type); in Python bool is a subclass of int
IsInstance(value, expected_type) ==
    CASE expected_type = "str" -> value.t = "str"
      [] expected_type = "number" -> value.t \in {"num", "bool"}
      [] expected_type = "bool" -> value.t = "bool"

\* AIService._safe_get: the value when present and of the expected type
_safe_get(data, key, expected_type) ==
    IF key \notin DOMAIN data THEN None
    ELSE IF data[key].t = "null" THEN None
    ELSE IF IsInstance(data[key], expected_type) THEN Some(data[key])
    ELSE None

\* Python truthiness of an optional string / an optional number
TruthyStr(o) == ~IsNone(o) /\ Val(o).v # <<>>
TruthyNum(o) ==
    ~IsNone(o) /\ IF Val(o).t = "bool" THEN Val(o).v ELSE Val(o).v # 0

StrOf(o) == IF IsNone(o) THEN None ELSE Some(Val(o).v)

sEUR == <<"E", "U", "R">>
sArticleInconnu == <<"A", "r", "t", "i", "c", "l", "e", " ", "i", "n", "c", "o", "n", "n", "u">>
One == JNum(100)

ExtractedItem(item_data) ==
    [ name |-> IF TruthyStr(_safe_get(item_data, "name", "str"))
               THEN Val(_safe_get(item_data, "name", "str")).v ELSE sArticleInconnu,
      quantity |-> IF TruthyNum(_safe_get(item_data, "quantity", "number"))
                   THEN Val(_safe_get(item_data, "quantity", "number")) ELSE One,
      unit_price |-> _safe_get(item_data, "unit_price", "number"),
      total_price |-> _safe_get(item_data, "total_price", "number") ]

RECURSIVE ExtractItems(_)
ExtractItems(l) ==
    IF l = <<>> THEN <<>>
    ELSE (IF Head(l).t = "obj" THEN <<ExtractedItem(Head(l).v)>> ELSE <<>>)
         \o ExtractItems(Tail(l))

RECURSIVE StrEntries(_)
StrEntries(l) ==
    IF l = <<>> THEN <<>>
    ELSE (IF Head(l).t = "str" THEN <<Head(l).v>> ELSE <<>>) \o StrEntries(Tail(l))

FailedResult(error) ==
    [ success |-> FALSE, error |-> error,
      doc_type |-> None, date |-> None, time |-> None, merchant |-> None,
      location |-> None, items |-> <<>>, total_amount |-> None, currency |-> sEUR,
      is_income |-> FALSE, suggested_tags |-> <<>> ]

\* AIService._parse_response once json.loads returned the object data
ParseFields(data) ==
    [ success |-> TRUE, error |-> "",
      doc_type |-> StrOf(_safe_get(data, "doc_type", "str")),
      date |-> StrOf(_safe_get(data, "date", "str")),
      time |-> StrOf(_safe_get(data, "time", "str")),
      merchant |-> StrOf(_safe_get(data, "merchant", "str")),
      location |-> StrOf(_safe_get(data, "location", "str")),
      total_amount |-> _safe_get(data, "total_amount", "number"),
      currency |-> IF TruthyStr(_safe_get(data, "currency", "str"))
                   THEN Val(_safe_get(data, "currency", "str")).v ELSE sEUR,
      is_income |-> IF IsNone(_safe_get(data, "is_income", "bool")) THEN FALSE
                    ELSE Val(_safe_get(data, "is_income", "bool")).v,
      items |-> IF "items" \in DOMAIN data /\ data["items"].t = "list"
                THEN ExtractItems(data["items"].v) ELSE <<>>,
      suggested_tags |-> IF "suggested_tags" \in DOMAIN data /\ data["suggested_tags"].t = "list"
                         THEN StrEntries(data["suggested_tags"].v) ELSE <<>> ]

\* ---------------------------------------------- reading the reply text
\* Body applied to the value of x (x is evaluated once, as an assignment does)
Only(S) == CHOOSE y \in S : TRUE
Bind(x, Body(_)) == Only({Body(y) : y \in {x}})

\* s[i:].startswith(p)
StartsAt(s, i, p) == i + Len(p) - 1 <= Len(s) /\ SubSeq(s, i, i + Len(p) - 1) = p

\* the least element of a non-empty set of indices, 0 for the empty set
First(hits) == IF hits = {} THEN 0 ELSE CHOOSE j \in hits : \A h \in hits : j <= h

\* s.find(p, i): the first index >= i where p occurs, 0 when there is none
Find(s, p, i) == First({j \in i..Len(s) : StartsAt(s, j, p)})

\* the first index >= i that holds no whitespace
RECURSIVE SkipWs(_, _)
SkipWs(s, i) == IF i <= Len(s) /\ s[i] \in Whitespace THEN SkipWs(s, i + 1) ELSE i

\* first substitution of _remove_comments: from two slashes to the end of the line
RECURSIVE DropLineComments(_, _)
DropLineComments(s, i) ==
    LET a == Find(s, <<"/", "/">>, i)
        e == Find(s, <<"\n">>, a)
    IN  IF a = 0 THEN SubSeq(s, i, Len(s))
        ELSE IF e = 0 THEN SubSeq(s, i, a - 1)
        ELSE SubSeq(s, i, a - 1) \o DropLineComments(s, e)

\* second substitution: from slash-star to the next star-slash, across lines
RECURSIVE DropBlockComments(_, _)
DropBlockComments(s, i) ==
    LET a == Find(s, <<"/", "*">>, i)
        b == IF a = 0 THEN 0 ELSE Find(s, <<"*", "/">>, a + 2)
    IN  IF b = 0 THEN SubSeq(s, i, Len(s))
        ELSE SubSeq(s, i, a - 1) \o DropBlockComments(s, b + 2)

\* third substitution: a comma and the white space after it, before ] or }
RECURSIVE DropTrailingCommas(_, _)
DropTrailingCommas(s, i) ==
    LET a == First({j \in i..Len(s) : /\ s[j] = ","
                                      /\ SkipWs(s, j + 1) <= Len(s)
                                      /\ s[SkipWs(s, j + 1)] \in {"]", "}"}})
    IN  IF a = 0 THEN SubSeq(s, i, Len(s))
        ELSE SubSeq(s, i, a - 1) \o DropTrailingCommas(s, SkipWs(s, a + 1))

\* AIService._remove_comments
_remove_comments(json_str) ==
    Bind(json_str, LAMBDA s :
    Bind(DropLineComments(s, 1), LAMBDA a :
    Bind(DropBlockComments(a, 1), LAMBDA b : DropTrailingCommas(b, 1))))

\* the backquote character, spelled out (a TLA+ string cannot hold it), and the
\* fence of a code block
Backquote == "BACKQUOTE"
Fence == <<Backquote, Backquote, Backquote>>
sJson == <<"j", "s", "o", "n">>

\* the loop of _extract_json: depth after the character at index j when counting
\* braces from start, and the first index where a closing brace brings it to 0
\* (0 when there is none)
BraceDepth(s, start, j) ==
    Cardinality({k \in start..j : s[k] = "{"}) - Cardinality({k \in start..j : s[k] = "}"})
MatchBrace(s, start) ==
    First({j \in start..Len(s) : s[j] = "}" /\ BraceDepth(s, start, j) = 0})

\* where the group of the code-block pattern begins (before the white space that
\* strip() removes anyway) for the fence opening at index open: after the three
\* backquotes and the optional word json
FenceBody(text, open) == IF StartsAt(text, open + 3, sJson) THEN open + 7 ELSE open + 3

\* AIService._extract_json: the candidate JSON text, None when there is none
_extract_json(text) ==
    LET open == Find(text, Fence, 1)
        close == IF open = 0 THEN 0 ELSE Find(text, Fence, FenceBody(text, open))
        start_idx == Find(text, <<"{">>, 1)
        end_idx == IF start_idx = 0 THEN 0 ELSE MatchBrace(text, start_idx)
    IN  IF close # 0
        THEN Some(_remove_comments(Strip(SubSeq(text, FenceBody(text, open), close - 1))))
        ELSE IF start_idx = 0 \/ end_idx = 0 THEN None
        ELSE Some(_remove_comments(SubSeq(text, start_idx, end_idx)))

\* ---- json.loads on the texts of the model (no escape sequences, no exponents)
JFail == [ok |-> FALSE, v |-> JNull, i |-> 0]
JOk(v, i) == [ok |-> TRUE, v |-> v, i |-> i]

sTrue == <<"t", "r", "u", "e">>
sFalse == <<"f", "a", "l", "s", "e">>
sNull == <<"n", "u", "l", "l">>

\* the key of a member as a string
RECURSIVE KeyOf(_)
KeyOf(chars) == IF chars = <<>> THEN "" ELSE Head(chars) \o KeyOf(Tail(chars))

\* the dict of a sequence of members: the last value given to a key stays
FromPairs(ps) ==
    [key \in {ps[n].k : n \in 1..Len(ps)} |->
        ps[CHOOSE n \in 1..Len(ps) :
              ps[n].k = key /\ \A n2 \in (n + 1)..Len(ps) : ps[n2].k # key].v]

\* the characters of a string from index i (after the opening quote) to the closing
\* quote; a control character inside a string is an error
RECURSIVE ScanString(_, _, _)
ScanString(s, i, acc) ==
    IF i > Len(s) THEN JFail
    ELSE IF s[i] = "\"" THEN JOk(acc, i + 1)
    ELSE IF s[i] \in {"\n", "\t", "\r"} THEN JFail
    ELSE ScanString(s, i + 1, Append(acc, s[i]))

RECURSIVE ScanDigits(_, _)
ScanDigits(s, i) == IF i <= Len(s) /\ s[i] \in Digits THEN ScanDigits(s, i + 1) ELSE i

\* a number, kept in hundredths: -? int (. digits)?  with no leading zero
ScanNumber(s, i) ==
    LET a == IF s[i] = "-" THEN i + 1 ELSE i
        b == ScanDigits(s, a)
        frac == b <= Len(s) /\ s[b] = "."
        c == IF frac THEN ScanDigits(s, b + 1) ELSE b
        whole == NumVal(SubSeq(s, a, b - 1)) * 100
        cents == IF ~frac THEN 0
                 ELSE DigitVal(s[b + 1]) * 10 + (IF c > b + 2 THEN DigitVal(s[b + 2]) ELSE 0)
    IN  IF b = a \/ (s[a] = "0" /\ b > a + 1) \/ (frac /\ c = b + 1) THEN JFail
        ELSE JOk(JNum(IF a > i THEN 0 - (whole + cents) ELSE whole + cents), c)

RECURSIVE ScanValue(_, _)
RECURSIVE ScanMembers(_, _, _)
RECURSIVE ScanElements(_, _, _)

\* one member from the quote of its key at index i: the key, the value and the
\* index of what follows the value
MFail == [ok |-> FALSE, k |-> "", v |-> JNull, i |-> 0]
ScanMember(s, i) ==
    IF i > Len(s) \/ s[i] # "\"" THEN MFail
    ELSE LET k == ScanString(s, i + 1, <<>>)
             c == SkipWs(s, k.i)
             v == ScanValue(s, c + 1)
         IN  IF ~k.ok \/ c > Len(s) \/ s[c] # ":" THEN MFail
             ELSE IF ~v.ok THEN MFail
             ELSE [ok |-> TRUE, k |-> KeyOf(k.v), v |-> v.v, i |-> SkipWs(s, v.i)]

\* the members of an object from the key at index i on, after the members acc
ScanMembers(s, i, acc) ==
    Bind(ScanMember(s, i), LAMBDA m :
        IF ~m.ok \/ m.i > Len(s) THEN JFail
        ELSE IF s[m.i] = "}" THEN JOk(JObj(FromPairs(Append(acc, m))), m.i + 1)
        ELSE IF s[m.i] = "," THEN ScanMembers(s, SkipWs(s, m.i + 1), Append(acc, m))
        ELSE JFail)

\* the elements of an array from the value at index i on, after the elements list
ScanElements(s, i, list) ==
    Bind(ScanValue(s, i), LAMBDA v :
        LET e == SkipWs(s, v.i)
        IN  IF ~v.ok \/ e > Len(s) THEN JFail
            ELSE IF s[e] = "]" THEN JOk(JList(Append(list, v.v)), e + 1)
            ELSE IF s[e] = "," THEN ScanElements(s, e + 1, Append(list, v.v))
            ELSE JFail)

\* one JSON value from index i0 on, white space skipped
ScanValue(s, i0) ==
    LET i == SkipWs(s, i0)
        j == SkipWs(s, i + 1)
        str == ScanString(s, i + 1, <<>>)
    IN  IF i > Len(s) THEN JFail
        ELSE IF s[i] = "{"
        THEN (IF j <= Len(s) /\ s[j] = "}" THEN JOk(JObj([x \in {} |-> JNull]), j + 1)
              ELSE ScanMembers(s, j, <<>>))
        ELSE IF s[i] = "["
        THEN (IF j <= Len(s) /\ s[j] = "]" THEN JOk(JList(<<>>), j + 1)
              ELSE ScanElements(s, j, <<>>))
        ELSE IF s[i] = "\"" THEN (IF str.ok THEN JOk(JStr(str.v), str.i) ELSE JFail)
        ELSE IF s[i] \in Digits \cup {"-"} THEN ScanNumber(s, i)
        ELSE IF StartsAt(s, i, sTrue) THEN JOk(JBool(TRUE), i + 4)
        ELSE IF StartsAt(s, i, sFalse) THEN JOk(JBool(FALSE), i + 5)
        ELSE IF StartsAt(s, i, sNull) THEN JOk(JNull, i + 4)
        ELSE JFail

\* json.loads(s): the value, None for JSONDecodeError (text left over included)
loads(s) ==
    Bind(ScanValue(s, 1), LAMBDA r :
        IF r.ok /\ SkipWs(s, r.i) > Len(s) THEN Some(r.v) ELSE None)

\* AIService._parse_response: the ExtractionResult, or the exception that leaves the
\* method (the field reads of a value that is not a dict raise AttributeError)
_parse_response(response_text) ==
    Bind(Strip(response_text), LAMBDA cleaned :
    Bind(_extract_json(cleaned), LAMBDA json_str :
        IF IsNone(json_str) \/ Val(json_str) = <<>>
        THEN [raised |-> FALSE, raw_response |-> response_text,
              result |-> FailedResult("Impossible d'extraire le JSON de la reponse")]
        ELSE Bind(loads(Val(json_str)), LAMBDA data :
                 IF IsNone(data)
                 THEN [raised |-> FALSE, raw_response |-> response_text,
                       result |-> FailedResult("JSON invalide")]
                 ELSE IF Val(data).t # "obj"
                 THEN [raised |-> TRUE, raw_response |-> response_text,
                       result |-> FailedResult("AttributeError")]
                 ELSE Bind(Val(data).v, LAMBDA obj :
                          [raised |-> FALSE, raw_response |-> response_text,
                           result |-> ParseFields(obj)]))))

\* -------------------------------------------- DocumentProcessor merging
sReceipt == <<"r", "e", "c", "e", "i", "p", "t">>
sInvoice == <<"i", "n", "v", "o", "i", "c", "e">>
sPayslip == <<"p", "a", "y", "s", "l", "i", "p">>
sOther == <<"o", "t", "h", "e", "r">>
valid_types == {sReceipt, sInvoice, sPayslip, sOther}

\* Decimal(str(x)) raises InvalidOperation for str(True) / str(False)
DecimalRaises(jv) == jv.t = "bool"

\* DocumentProcessor._update_document: the document after the assignments made
\* before the method returned or raised
_update_document(document, ai_result) ==
    LET c1 == ~IsNone(ai_result.doc_type) /\ Val(ai_result.doc_type) # <<>>
              /\ Lower(Val(ai_result.doc_type)) \in valid_types
        c2 == ~IsNone(ai_result.date) /\ Val(ai_result.date) # <<>>
              /\ ~IsNone(_parse_date(Val(ai_result.date)))
        c3 == ~IsNone(ai_result.time) /\ Val(ai_result.time) # <<>>
              /\ ~IsNone(_parse_time(Val(ai_result.time)))
        c4 == ~IsNone(ai_result.merchant) /\ Val(ai_result.merchant) # <<>>
        c5 == ~IsNone(ai_result.location) /\ Val(ai_result.location) # <<>>
        c6 == ~IsNone(ai_result.total_amount)
        c7 == ai_result.currency # <<>>
        raises == c6 /\ DecimalRaises(Val(ai_result.total_amount))
        d1 == [document EXCEPT !.doc_type = IF c1 THEN Some(Lower(Val(ai_result.doc_type))) ELSE @]
        d2 == [d1 EXCEPT !.date = IF c2 THEN _parse_date(Val(ai_result.date)) ELSE @]
        d3 == [d2 EXCEPT !.time = IF c3 THEN _parse_time(Val(ai_result.time)) ELSE @]
        d4 == [d3 EXCEPT !.merchant = IF c4 THEN Some(Take(Val(ai_result.merchant), MerchantWidth))
                                      ELSE @]
        d5 == [d4 EXCEPT !.location = IF c5 THEN Some(Take(Val(ai_result.location), LocationWidth))
                                      ELSE @]
        d8 == [d5 EXCEPT
                 !.total_amount = IF c6 /\ ~raises THEN Some(Val(ai_result.total_amount).v) ELSE @,
                 !.currency = IF c7 THEN Upper(Take(ai_result.currency, CurrencyWidth)) ELSE @,
                 !.is_income = ai_result.is_income]
        early == (IF c1 THEN {"doc_type"} ELSE {}) \cup (IF c2 THEN {"date"} ELSE {})
                 \cup (IF c3 THEN {"time"} ELSE {}) \cup (IF c4 THEN {"merchant"} ELSE {})
                 \cup (IF c5 THEN {"location"} ELSE {})
        late == (IF c6 THEN {"total_amount"} ELSE {}) \cup (IF c7 THEN {"currency"} ELSE {})
                \cup {"is_income"}
    IN  [ doc |-> IF raises THEN d5 ELSE d8, raised |-> raises,
          assigned |-> IF raises THEN early ELSE early \cup late ]

\* one Item(...) construction of _create_items; raises inside Decimal(str(...))
ItemRaises(x) ==
    \/ DecimalRaises(x.quantity)
    \/ (TruthyNum(x.unit_price) /\ DecimalRaises(Val(x.unit_price)))
    \/ (TruthyNum(x.total_price) /\ DecimalRaises(Val(x.total_price)))

ItemRow(x) ==
    [ name |-> IF x.name # <<>> THEN Take(x.name, ItemNameWidth) ELSE sArticleInconnu,
      quantity |-> IF x.quantity.v # 0 THEN x.quantity.v ELSE One.v,
      unit_price |-> IF TruthyNum(x.unit_price) THEN Some(Val(x.unit_price).v) ELSE None,
      total_price |-> IF TruthyNum(x.total_price) THEN Some(Val(x.total_price).v) ELSE None,
      del |-> {} ]   \* the open transactions whose DELETE covered the row

\* the loop of _create_items: the rows added to the session before the loop
\* ended or an Item(...) construction raised
RECURSIVE NewItems(_)
NewItems(items) ==
    IF items = <<>> THEN [rows |-> <<>>, raised |-> FALSE]
    ELSE IF ItemRaises(Head(items)) THEN [rows |-> <<>>, raised |-> TRUE]
    ELSE LET rest == NewItems(Tail(items))
         IN  [rows |-> <<ItemRow(Head(items))>> \o rest.rows, raised |-> rest.raised]

\* the tags of the user (tag bookkeeping is outside the pipeline: the set is fixed)
sCourses == <<"C", "o", "u", "r", "s", "e", "s">>
sVoyage == <<"V", "o", "y", "a", "g", "e">>
UserTags == << [id |-> 1, name |-> sCourses], [id |-> 2, name |-> sVoyage] >>

\* tag_map.get(name): the dict comprehension keeps the last tag of a lower-cased name
TagMapGet(user_tags, name) ==
    LET hits == {i \in 1..Len(user_tags) : Lower(user_tags[i].name) = name}
    IN  IF hits = {} THEN None
        ELSE Some(user_tags[CHOOSE i \in hits : \A j \in hits : j <= i].id)

\* the elements of a list
Range(l) == {l[i] : i \in 1..Len(l)}

\* tags_to_add: the tag of every suggested name the tag_map knows, in order
RECURSIVE TagsToAdd(_, _)
TagsToAdd(names, user_tags) ==
    IF names = <<>> THEN <<>>
    ELSE (IF IsNone(TagMapGet(user_tags, Lower(Head(names)))) THEN <<>>
          ELSE <<Val(TagMapGet(user_tags, Lower(Head(names))))>>)
         \o TagsToAdd(Tail(names), user_tags)

\* every tag of tags_to_add is appended
Appended_Unguarded(tags, to_add) == to_add

\* for tag in tags_to_add: if tag not in document.tags: document.tags.append(tag);
\* the tags appended to a document that holds `tags`
RECURSIVE Appended(_, _)
Appended(tags, to_add) ==
    IF to_add = <<>> THEN <<>>
    ELSE IF Head(to_add) \in tags THEN Appended(tags, Tail(to_add))
    ELSE <<Head(to_add)>> \o Appended(tags \cup {Head(to_add)}, Tail(to_add))

\* DocumentProcessor._assign_suggested_tags: the tags it appends to document.tags
_assign_suggested_tags(tags, ai_result, user_tags) ==
    Bind(ai_result.suggested_tags, LAMBDA names :
        Bind(TagsToAdd(names, user_tags), LAMBDA to_add : Appended(tags, to_add)))

\* an association (document, tag) inserted while it exists, or inserted twice:
\* the primary key of document_tags rejects the flush
AssociatedTwice(tags, appended) ==
    Bind(appended, LAMBDA l :
        \/ \E i \in 1..Len(l) : l[i] \in tags
        \/ \E i, j \in 1..Len(l) : i # j /\ l[i] = l[j])

\* ------------------------------------------------- inputs of the adapters
sPain == <<"P", "a", "i", "n">>
sCarrefour == <<"C", "a", "r", "r", "e", "f", "o", "u", "r">>
sLidl == <<"L", "i", "d", "l">>
sReceiptCap == <<"R", "e", "c", "e", "i", "p", "t">>
sDate1 == <<"0", "1", "/", "0", "1", "/", "2", "0", "2", "4">>
sBadDate == <<"h", "i", "e", "r">>
sUsd == <<"u", "s", "d", "s">>
sCoursesLow == <<"c", "o", "u", "r", "s", "e", "s">>
sLoisirs == <<"L", "o", "i", "s", "i", "r", "s">>

\* the JSON objects the model replies with (json.loads of the extracted text)
ReplyScenario ==
    [ doc_type |-> JStr(sReceipt), date |-> JStr(sDate1), merchant |-> JStr(sCarrefour),
      total_amount |-> JNum(120), currency |-> JStr(sEUR), is_income |-> JBool(FALSE),
      items |-> JList(<< JObj([name |-> JStr(sPain), quantity |-> JNum(100),
                               total_price |-> JNum(120)]) >>),
      suggested_tags |-> JList(<<>>) ]
ReplyEmpty == [ x \in {} |-> JNull ]
ReplyBoolAmount ==
    [ doc_type |-> JStr(sReceiptCap), merchant |-> JStr(sLidl), total_amount |-> JBool(TRUE),
      suggested_tags |-> JList(<< JStr(sCoursesLow) >>) ]
ReplyLoose ==
    [ doc_type |-> JNum(1), date |-> JStr(sBadDate), merchant |-> JStr(sLidl),
      total_amount |-> JNull, currency |-> JStr(sUsd), is_income |-> JNum(1),
      items |-> JList(<< JObj([quantity |-> JNum(0)]), JStr(sPain) >>),
      suggested_tags |-> JList(<< JStr(sCoursesLow), JStr(sLoisirs), JNum(5) >>) ]

\* ------------------------------------------------------- the OCR adapter
\* str(n) of a natural number
DigitChar(n) == CHOOSE c \in Digits : DigitVal(c) = n
RECURSIVE IntText(_)
IntText(n) == IF n < 10 THEN <<DigitChar(n)>> ELSE IntText(n \div 10) \o <<DigitChar(n % 10)>>

IMAGE_EXTENSIONS ==
    { <<".", "j", "p", "g">>, <<".", "j", "p", "e", "g">>, <<".", "p", "n", "g">>,
      <<".", "g", "i", "f">>, <<".", "w", "e", "b", "p">> }
PDF_EXTENSIONS == { <<".", "p", "d", "f">> }

\* OCRResult(text="", confidence=0.0, success=False, error=...)
OcrFail(error) == [kind |-> "fail", text |-> <<>>, confidence |-> 0, error |-> error]

\* an exception on its way out of a call
OcrRaise(error) == [kind |-> "raise", text |-> <<>>, confidence |-> 0, error |-> error]

\* "\n".join(lines)
RECURSIVE JoinWith(_, _)
JoinWith(lines, sep) ==
    IF lines = <<>> THEN <<>>
    ELSE IF Len(lines) = 1 THEN Head(lines)
    ELSE Head(lines) \o sep \o JoinWith(Tail(lines), sep)

RECURSIVE SumOf(_)
SumOf(l) == IF l = <<>> THEN 0 ELSE Head(l) + SumOf(Tail(l))

\* OCRService._parse_ocr_result: one page of PaddleOCR output; a detection counts
\* when it is a pair whose second part is a (text, confidence) tuple.  Confidences
\* are in hundredths of a percent (the average is cut, not rounded).
_parse_ocr_result(page) ==
    IF IsNone(page.lines) \/ Val(page.lines) = <<>>
    THEN OcrFail("Aucun texte detecte dans l'image")
    ELSE LET valid == SelectSeq(Val(page.lines), LAMBDA x : x.valid)
         IN  IF valid = <<>> THEN OcrFail("Aucun texte valide extrait")
             ELSE [ kind |-> "ok",
                    text |-> JoinWith([i \in 1..Len(valid) |-> valid[i].text], <<"\n">>),
                    confidence |-> SumOf([i \in 1..Len(valid) |-> valid[i].conf]) \div Len(valid),
                    error |-> "" ]

\* self.ocr.ocr(...) on one page, then _parse_ocr_result
PageResult(page) ==
    IF page.raises THEN OcrRaise("RuntimeError") ELSE _parse_ocr_result(page)

\* OCRService._extract_from_image
_extract_from_image(file) == PageResult(file.pages[1])

\* f"--- Page {i + 1} ---\n{page_result.text}"
PageText(i, text) ==
    <<"-", "-", "-", " ", "P", "a", "g", "e", " ">> \o IntText(i)
    \o <<" ", "-", "-", "-", "\n">> \o text

\* OCRService._extract_from_pdf: pages that yield no text are skipped, and no page
\* left is a failure
_extract_from_pdf(file) ==
    IF file.convert = "raises" THEN OcrFail("Erreur de conversion PDF")
    ELSE IF file.pages = <<>> THEN OcrFail("Le PDF ne contient aucune page")
    ELSE IF \E i \in 1..Len(file.pages) : file.pages[i].raises THEN OcrRaise("RuntimeError")
    ELSE LET kept == SelectSeq([i \in 1..Len(file.pages) |->
                                  [i |-> i, r |-> PageResult(file.pages[i])]],
                               LAMBDA x : x.r.kind = "ok" /\ x.r.text # <<>>)
         IN  IF kept = <<>> THEN OcrFail("Aucun texte extrait du PDF")
             ELSE [ kind |-> "ok",
                    text |-> JoinWith([n \in 1..Len(kept) |-> PageText(kept[n].i, kept[n].r.text)],
                                      <<"\n", "\n">>),
                    confidence |-> SumOf([n \in 1..Len(kept) |-> kept[n].r.confidence])
                                   \div Len(kept),
                    error |-> "" ]

\* the exception leaves extract_text
OnException_Raises(e) == OcrRaise(e)

\* extract_text: except Exception as e: OCRResult(success=False, error=...)
OnException(e) == OcrFail("Erreur lors de l'extraction OCR")

\* OCRService.extract_text: the OCRResult (kind ok: success=True, kind fail:
\* success=False), or the exception that leaves the method
extract_text(file) ==
    IF ~file.exists THEN OcrFail("Fichier non trouve")
    ELSE LET r == IF Lower(file.ext) \in IMAGE_EXTENSIONS THEN _extract_from_image(file)
                  ELSE IF Lower(file.ext) \in PDF_EXTENSIONS THEN _extract_from_pdf(file)
                  ELSE OcrFail("Format de fichier non supporte")
         IN  IF r.kind = "raise" THEN OnException(r.error) ELSE r

\* pages as PaddleOCR reports them
NoDetection == [raises |-> FALSE, lines |-> None]
Crashing == [raises |-> TRUE, lines |-> None]
Detected(texts) ==
    [ raises |-> FALSE,
      lines |-> Some([i \in 1..Len(texts) |-> [text |-> texts[i], conf |-> 9512, valid |-> TRUE]]) ]
Malformed ==
    [raises |-> FALSE, lines |-> Some(<< [text |-> <<>>, conf |-> 0, valid |-> FALSE] >>)]

\* the text of detections that hold white space only, joined by "\n"
sBlank == <<" ", "\n", " ">>
sJpg == <<".", "j", "p", "g">>
sPdfCap == <<".", "P", "D", "F">>
sTxt == <<".", "t", "x", "t">>

\* what file_path can lead to: the file as it is on disk when the run reads it, and
\* what the OCR backend does with it
Files ==
    { [name |-> "ticket", ext |-> sJpg, exists |-> TRUE, convert |-> "ok",
       pages |-> << Detected(<<sPain>>) >>],
      [name |-> "empty", ext |-> sJpg, exists |-> TRUE, convert |-> "ok",
       pages |-> << NoDetection >>],
      [name |-> "missing", ext |-> sJpg, exists |-> FALSE, convert |-> "ok",
       pages |-> << NoDetection >>],
      [name |-> "notes", ext |-> sTxt, exists |-> TRUE, convert |-> "ok",
       pages |-> << Detected(<<sPain>>) >>],
      [name |-> "crash", ext |-> sJpg, exists |-> TRUE, convert |-> "ok",
       pages |-> << Crashing >>],
      [name |-> "odd", ext |-> sJpg, exists |-> TRUE, convert |-> "ok",
       pages |-> << Malformed >>],
      [name |-> "blank", ext |-> sJpg, exists |-> TRUE, convert |-> "ok",
       pages |-> << Detected(<< <<" ">>, <<" ">> >>) >>],
      [name |-> "dot", ext |-> sJpg, exists |-> TRUE, convert |-> "ok",
       pages |-> << Detected(<< <<>> >>) >>],
      [name |-> "broken", ext |-> sPdfCap, exists |-> TRUE, convert |-> "raises",
       pages |-> <<>>],
      [name |-> "nopage", ext |-> sPdfCap, exists |-> TRUE, convert |-> "ok",
       pages |-> <<>>],
      [name |-> "white", ext |-> sPdfCap, exists |-> TRUE, convert |-> "ok",
       pages |-> << NoDetection, Detected(<< <<>> >>), Malformed >>],
      [name |-> "bill", ext |-> sPdfCap, exists |-> TRUE, convert |-> "ok",
       pages |-> << NoDetection, Detected(<<sPain>>) >>],
      [name |-> "jam", ext |-> sPdfCap, exists |-> TRUE, convert |-> "ok",
       pages |-> << Detected(<<sPain>>), Crashing >>] }

\* what the OCR adapter call of process() produces: the OCRResult of a file (with
\* the name of the file it read), or the TypeError of the await (the result is lost)
OcrOutcomes ==
    { Bind(extract_text(f), LAMBDA r :
           [kind |-> r.kind, text |-> r.text, confidence |-> r.confidence, error |-> r.error,
            file |-> f.name]) : f \in Files }
    \cup { [kind |-> "raise", text |-> <<>>, confidence |-> 0, error |-> "TypeError",
            file |-> ""] }

sBrace == <<"A", "}", "B">>
\* a merchant name that holds a closing brace
ReplyBrace == [ merchant |-> JStr(sBrace), total_amount |-> JNum(250) ]
Replies == << ReplyScenario, ReplyEmpty, ReplyBoolAmount, ReplyLoose, ReplyBrace >>

\* replies that hold no JSON object: plain prose, an object never closed, braces
\* around text that is not JSON
sSorry ==
    <<"S", "o", "r", "r", "y", ",", " ", "I", " ", "c", "a", "n", "n", "o", "t", " ", "p",
      "r", "o", "c", "e", "s", "s", " ", "t", "h", "i", "s", ".">>
sUnclosed ==
    <<"{", "\"", "m", "e", "r", "c", "h", "a", "n", "t", "\"", ":", "\"", "L", "i", "d",
      "l", "\"">>
sNotJson == <<"{", "m", "e", "r", "c", "h", "a", "n", "t", ":", " ", "L", "i", "d", "l", "}">>
\* a JSON list inside a code fence
sListOnly == Fence \o sJson \o <<"\n", "[", "1", "]", "\n">> \o Fence
\* replies that hold no JSON object
Junk == << sSorry, sUnclosed, sNotJson, sListOnly >>

\* the keys of the extraction schema, in the order the texts list them
KeyOrder ==
    << [key |-> "doc_type", text |-> <<"d", "o", "c", "_", "t", "y", "p", "e">>],
       [key |-> "date", text |-> <<"d", "a", "t", "e">>],
       [key |-> "time", text |-> <<"t", "i", "m", "e">>],
       [key |-> "merchant", text |-> <<"m", "e", "r", "c", "h", "a", "n", "t">>],
       [key |-> "location", text |-> <<"l", "o", "c", "a", "t", "i", "o", "n">>],
       [key |-> "total_amount", text |-> <<"t", "o", "t", "a", "l", "_", "a", "m", "o", "u", "n", "t">>],
       [key |-> "currency", text |-> <<"c", "u", "r", "r", "e", "n", "c", "y">>],
       [key |-> "is_income", text |-> <<"i", "s", "_", "i", "n", "c", "o", "m", "e">>],
       [key |-> "items", text |-> <<"i", "t", "e", "m", "s">>],
       [key |-> "suggested_tags", text |-> <<"s", "u", "g", "g", "e", "s", "t", "e", "d", "_", "t", "a", "g", "s">>],
       [key |-> "name", text |-> <<"n", "a", "m", "e">>],
       [key |-> "quantity", text |-> <<"q", "u", "a", "n", "t", "i", "t", "y">>],
       [key |-> "unit_price", text |-> <<"u", "n", "i", "t", "_", "p", "r", "i", "c", "e">>],
       [key |-> "total_price", text |-> <<"t", "o", "t", "a", "l", "_", "p", "r", "i", "c", "e">>] >>

\* a number kept in hundredths, written with two decimals
NumText(n) ==
    LET a == IF n < 0 THEN 0 - n ELSE n
    IN  (IF n < 0 THEN <<"-">> ELSE <<>>) \o IntText(a \div 100)
        \o <<".", DigitChar((a % 100) \div 10), DigitChar(a % 10)>>

RECURSIVE Dumps(_)
RECURSIVE DumpsAll(_, _)
RECURSIVE DumpsMembers(_, _)

\* the elements of a list from index i on, separated by commas
DumpsAll(l, i) ==
    IF i > Len(l) THEN <<>>
    ELSE (IF i > 1 THEN <<",">> ELSE <<>>) \o Dumps(l[i]) \o DumpsAll(l, i + 1)

\* the members of an object for the keys ks
DumpsMembers(o, ks) ==
    IF ks = <<>> THEN <<>>
    ELSE <<"\"">> \o Head(ks).text \o <<"\"", ":">> \o Dumps(o[Head(ks).key])
         \o (IF Len(ks) > 1 THEN <<",">> ELSE <<>>) \o DumpsMembers(o, Tail(ks))

\* the minified JSON text of a value
Dumps(v) ==
    CASE v.t = "null" -> sNull
      [] v.t = "str" -> <<"\"">> \o v.v \o <<"\"">>
      [] v.t = "num" -> NumText(v.v)
      [] v.t = "bool" -> (IF v.v THEN sTrue ELSE sFalse)
      [] v.t = "list" -> <<"[">> \o DumpsAll(v.v, 1) \o <<"]">>
      [] v.t = "obj" ->
           <<"{">> \o DumpsMembers(v.v, SelectSeq(KeyOrder, LAMBDA k : k.key \in DOMAIN v.v))
           \o <<"}">>

sNote == <<" ", "/", "/", " ", "n", "o", "t", "e", "\n">>
sBefore ==
    <<"V", "o", "i", "c", "i", " ", "l", "e", " ", "r", "e", "s", "u", "l", "t", "a", "t",
      " ", ":", " ">>
sAfter == <<" ", "M", "e", "r", "c", "i", ".">>

\* the ways the backend dresses a JSON text: as it is, inside a fenced code block,
\* with a line comment, with a comma before the last brace, inside prose
Forms == {"bare", "fenced", "comments", "comma", "prose"}
Decorated(t, form) ==
    CASE form = "bare" -> t
      [] form = "fenced" -> Fence \o sJson \o <<"\n">> \o t \o <<"\n">> \o Fence
      [] form = "comments" -> <<Head(t)>> \o sNote \o Tail(t)
      [] form = "comma" -> SubSeq(t, 1, Len(t) - 1) \o <<",", t[Len(t)]>>
      [] form = "prose" -> sBefore \o t \o sAfter

\* the reply texts: those of the objects of Replies, then those of Junk
NTexts == Len(Replies) + Len(Junk)
ReplyText(k, form) ==
    IF k <= Len(Replies) THEN Decorated(Dumps(JObj(Replies[k])), form)
    ELSE Junk[k - Len(Replies)]

\* what the call to the generative backend produces
AiOutcomes ==
    { [kind |-> "fail", k |-> 0, form |-> "bare", error |-> "Timeout lors de l'appel a Ollama"] }
    \cup { [kind |-> "reply", k |-> i, form |-> f, error |-> ""] :
             i \in 1..Len(Replies), f \in Forms }
    \cup { [kind |-> "reply", k |-> i, form |-> "bare", error |-> ""] :
             i \in (Len(Replies) + 1)..NTexts }

\* _parse_response(response_text) for each reply text the backend can give
Parsed == [k \in 1..NTexts |-> [f \in Forms |-> _parse_response(ReplyText(k, f))]]

\* the text is sent to the backend whatever it holds
RejectedLocally_Never(ocr_text) == FALSE

\* if not ocr_text or not ocr_text.strip()
RejectedLocally(ocr_text) == ocr_text = <<>> \/ Strip(ocr_text) = <<>>

\* AIService.extract_data
extract_data(ocr_text, outcome) ==
    IF RejectedLocally(ocr_text)
    THEN FailedResult("Texte OCR vide ou invalide")
    ELSE IF outcome.kind = "fail" THEN FailedResult(outcome.error)
    ELSE IF Parsed[outcome.k][outcome.form].raised
    THEN FailedResult("Erreur inattendue: AttributeError")
    ELSE Parsed[outcome.k][outcome.form].result

\* ------------------------------------------------------------------ state
Workers == {<<"w", i>> : i \in WorkerIds}
Reprocessors == {<<"rp", d>> : d \in DocIds}
Runners == Workers \cup Reprocessors

VARIABLES
    docs,        \* the documents table with each row's items and tag associations
    queue,       \* DocumentProcessingQueue._queue
    unfinished,  \* Queue.unfinished_tasks (put / task_done)
    lock,        \* DocumentProcessingQueue._lock: 0 or the request holding it
    running,     \* DocumentProcessingQueue._running
    thread,      \* DocumentProcessingQueue._worker_thread: 0 (None) or a worker
    alive,       \* the worker threads that are alive
    up,          \* position of the upload request of each document
    run,         \* position and locals of each worker thread / reprocess request
    nrp,         \* reprocess requests made per document
    nedit,       \* update requests made
    g,           \* history of each document (observations only, never read by the code)
    env          \* the environment of this execution: the uploads that arrive and the
                 \* replies the generative backend gives

vars == <<docs, queue, unfinished, lock, running, thread, alive, up, run, nrp, nedit, g, env>>

NoRow ==
    [ exists |-> "no", processing_status |-> "", processing_error |-> None,
      ocr_raw_text |-> None, ocr_confidence |-> None,
      doc_type |-> None, date |-> None, time |-> None, merchant |-> None,
      location |-> None, total_amount |-> None, currency |-> sEUR, is_income |-> FALSE,
      items |-> <<>>, tags |-> {}, created_at |-> [y |-> 2024, m |-> 3, d |-> 1] ]

\* the row upload_document inserts: column defaults, processing_status="pending"
NewRow(d) ==
    [ NoRow EXCEPT !.exists = "yes", !.processing_status = "pending",
                   !.created_at = [y |-> 2024, m |-> 3, d |-> d] ]

Exists(d) == docs[d].exists = "yes"

NoOcr == [kind |-> "none", text |-> <<>>, confidence |-> 0, error |-> "", file |-> ""]
NoAi == [kind |-> "none", k |-> 0, form |-> "bare", error |-> ""]
NoExc == [type |-> "none", step |-> "", message |-> ""]
EarlyFields == {"doc_type", "date", "time", "merchant", "location"}
\* changes made in a session and not yet committed: assigned attributes (None: not
\* assigned), whether the DELETE of the items was executed, the Item rows added
NoPend == [fields |-> [f \in EarlyFields |-> None], del |-> FALSE, rows |-> <<>>]

\* ProcessingError(message, step) and any other exception
PE(step, message) == [type |-> "PE", step |-> step, message |-> message]
Exc(message) == [type |-> "Exc", step |-> "", message |-> message]

\* the extracted fields, items and tags of a row
Extracted(row) ==
    [ doc_type |-> row.doc_type, date |-> row.date, time |-> row.time,
      merchant |-> row.merchant, location |-> row.location,
      total_amount |-> row.total_amount, currency |-> row.currency,
      is_income |-> row.is_income, items |-> row.items, tags |-> row.tags ]

\* (start: what the document held when the run began, kept while the run is alone
\*  on its document; an observation only)
IdleRun ==
    [ pc |-> "idle", doc |-> 0, ocr |-> NoOcr, ai |-> NoAi, exc |-> NoExc,
      pend |-> NoPend, solo |-> TRUE, start |-> Extracted(NoRow) ]

\* what a run leaves to compare: extracted fields, number of items, tag set
Payload(row) ==
    [ doc_type |-> row.doc_type, date |-> row.date, time |-> row.time,
      merchant |-> row.merchant, location |-> row.location,
      total_amount |-> row.total_amount, currency |-> row.currency,
      is_income |-> row.is_income, nitems |-> Len(row.items), tags |-> row.tags ]

NoHistory ==
    [ before |-> {}, inv |-> "no", finBefore |-> {}, qOut |-> "none",
      lastOut |-> "none", lastIn |-> <<NoOcr, NoAi>>, snap |-> Payload(NoRow), clean |-> FALSE,
      twice |-> "none" ]

\* the executions explored.  An environment fixes which uploads arrive, what the two
\* adapters can answer and which other requests are made:
\*   - every document is uploaded, the first may be deleted, the backend gives the
\*     scenario reply or fails;
\*   - one document is uploaded, reprocessed, edited and deleted, and the backend
\*     fails or gives one of the first four replies;
\*   - every document is uploaded and the first is reprocessed, the OCR reads the
\*     scenario's text and the backend gives the scenario reply or fails;
\*   - one document is uploaded, the OCR text may be blank and the backend fails
\*     or gives any of the reply texts, in any of its forms.
Environments ==
    { [uploads |-> DocIds, replies |-> {0, 1}, forms |-> {"bare"},
       files |-> {"ticket", "empty", ""},
       reprocess |-> {}, deletes |-> {1}, edits |-> FALSE],
      [uploads |-> {1}, replies |-> 0..4, forms |-> {"bare"},
       files |-> {"ticket", "empty", ""},
       reprocess |-> {1}, deletes |-> {1}, edits |-> TRUE],
      [uploads |-> DocIds, replies |-> {0, 1}, forms |-> {"bare"},
       files |-> {"ticket"},
       reprocess |-> {1}, deletes |-> {}, edits |-> FALSE],
      [uploads |-> {1}, replies |-> 0..NTexts, forms |-> Forms,
       files |-> {f.name : f \in Files},
       reprocess |-> {}, deletes |-> {}, edits |-> FALSE] }

Init ==
    /\ env \in Environments
    /\ docs = [d \in DocIds |-> NoRow]
    /\ queue = <<>>
    /\ unfinished = 0
    /\ lock = 0
    /\ running = FALSE
    /\ thread = 0
    /\ alive = {}
    /\ up = [d \in DocIds |-> [pc |-> "new", need |-> FALSE]]
    /\ run = [R \in Runners |-> IdleRun]
    /\ nrp = [d \in DocIds |-> 0]
    /\ nedit = 0
    /\ g = [d \in DocIds |-> NoHistory]

\* the runs in progress on document d
Active(d) == {R \in Runners : run[R].pc # "idle" /\ run[R].doc = d}

\* ------------------------------------------------------ session helpers
\* rows of document d after the transaction of runner R commits: the rows its
\* DELETE saw are removed, the rows it added are inserted
CommitItems(items, R, rows) ==
    SelectSeq(items, LAMBDA it : R \notin it.del) \o rows

\* a DELETE without a filter
DeleteCovers_All(b, d) == TRUE

\* .filter(Item.document_id == document.id): the documents whose items the DELETE
\* issued for document d covers
DeleteCovers(b, d) == b = d

\* the DELETE of _create_items as executed inside the transaction of R
MarkDeleted(items, R) == [i \in 1..Len(items) |-> [items[i] EXCEPT !.del = @ \cup {R}]]

\* rollback of the transaction of R (session closed without commit)
Unmark(items, R) == [i \in 1..Len(items) |-> [items[i] EXCEPT !.del = @ \ {R}]]

\* the row after the pending changes of a session are flushed and committed
Flush(row, R, pend) ==
    [ row EXCEPT
        !.doc_type = IF IsNone(pend.fields.doc_type) THEN @ ELSE Val(pend.fields.doc_type),
        !.date = IF IsNone(pend.fields.date) THEN @ ELSE Val(pend.fields.date),
        !.time = IF IsNone(pend.fields.time) THEN @ ELSE Val(pend.fields.time),
        !.merchant = IF IsNone(pend.fields.merchant) THEN @ ELSE Val(pend.fields.merchant),
        !.location = IF IsNone(pend.fields.location) THEN @ ELSE Val(pend.fields.location),
        !.items = IF pend.del \/ pend.rows # <<>> THEN CommitItems(@, R, pend.rows) ELSE @ ]

\* ------------------------------------------------- history (observations)
\* the history of document d once run R on it has ended with the given outcome
EndOfRun(d, R, outcome, rowAfter) ==
    LET h == g[d]
        ins == <<run[R].ocr, run[R].ai>>
        solo == run[R].solo
        again == solo /\ h.clean /\ h.lastIn = ins
    IN  [ h EXCEPT
            !.lastOut = outcome,
            !.lastIn = ins,
            !.snap = Payload(rowAfter),
            !.clean = solo,
            !.twice = IF again
                      THEN (IF Payload(rowAfter) = h.snap /\ @ # "diff" THEN "same" ELSE "diff")
                      ELSE @ ]

\* a run starts on d, or d is edited: the runs in progress on d are no longer alone
Disturbed(d) == [R \in Runners |-> IF run[R].pc # "idle" /\ run[R].doc = d
                                   THEN [run[R] EXCEPT !.solo = FALSE, !.start = Extracted(NoRow)]
                                   ELSE run[R]]

\* ------------------------------------------------------------ upload path
\* upload_document: insert the row with status pending, commit
Upload(d) ==
    /\ up[d].pc = "new"
    /\ d \in env.uploads
    /\ docs' = [docs EXCEPT ![d] = NewRow(d)]
    /\ up' = [up EXCEPT ![d].pc = "put"]
    /\ UNCHANGED <<queue, unfinished, lock, running, thread, alive, run, nrp, nedit, g, env>>

\* DocumentProcessingQueue.add: self._queue.put(document_id)
AddPut(d) ==
    /\ up[d].pc = "put"
    /\ queue' = Append(queue, d)
    /\ unfinished' = unfinished + 1
    /\ up' = [up EXCEPT ![d].pc = "start"]
    /\ g' = [g EXCEPT ![d].before = {a \in DocIds : up[a].pc = "done"}]
    /\ UNCHANGED <<docs, lock, running, thread, alive, run, nrp, nedit, env>>

\* a lock that every thread may enter
LockFree_Unguarded == TRUE

\* threading.Lock: acquired only when free
LockFree == lock = 0

\* DocumentProcessingQueue.start: with self._lock
StartAcquire(d) ==
    /\ up[d].pc = "start"
    /\ LockFree
    /\ lock' = d
    /\ up' = [up EXCEPT ![d].pc = "check"]
    /\ UNCHANGED <<docs, queue, unfinished, running, thread, alive, run, nrp, nedit, g, env>>

\* no thread is ever found wanting
NeedsThread_Never(t, living) == FALSE

\* self._worker_thread is None or not self._worker_thread.is_alive()
NeedsThread(t, living) == t = 0 \/ t \notin living

\* DocumentProcessingQueue.start: the test made under the lock
StartCheck(d) ==
    /\ up[d].pc = "check"
    /\ up' = [up EXCEPT ![d] = [pc |-> "spawn", need |-> NeedsThread(thread, alive)]]
    /\ UNCHANGED <<docs, queue, unfinished, lock, running, thread, alive, run, nrp, nedit, g, env>>

\* DocumentProcessingQueue.start: create and start the thread, leave the with block
StartSpawn(d) ==
    /\ up[d].pc = "spawn"
    /\ IF up[d].need /\ WorkerIds \ alive # {}
       THEN LET w == CHOOSE i \in WorkerIds \ alive : \A j \in WorkerIds \ alive : i <= j
            IN  /\ running' = TRUE
                /\ thread' = w
                /\ alive' = alive \cup {w}
       ELSE UNCHANGED <<running, thread, alive>>
    /\ lock' = IF lock = d THEN 0 ELSE lock
    /\ up' = [up EXCEPT ![d] = [pc |-> "done", need |-> FALSE]]
    /\ UNCHANGED <<docs, queue, unfinished, run, nrp, nedit, g, env>>

\* ---------------------------------------------------------- worker thread
\* a LifoQueue: the newest identifier first
QueueGet_Lifo(q) == [item |-> q[Len(q)], rest |-> SubSeq(q, 1, Len(q) - 1)]

\* queue.Queue.get: the oldest identifier, and what stays queued
QueueGet(q) == [item |-> Head(q), rest |-> Tail(q)]

\* the thread ends when an exception reaches the loop
AfterEscape_Dies(w) == alive \ {w}

\* _worker: `except Exception` inside `while self._running` logs and loops again:
\* the threads alive after an exception reached the loop of worker w
AfterEscape(w) == alive

\* the status write is forgotten
MarkProcessing_Skip(row) == row

\* document.processing_status = "processing"
MarkProcessing(row) == [row EXCEPT !.processing_status = "processing"]

\* _worker: while self._running: document_id = self._queue.get(timeout=5)
WorkerGet(w) ==
    /\ w \in alive
    /\ running
    /\ run[<<"w", w>>].pc = "idle"
    /\ queue # <<>>
    /\ queue' = QueueGet(queue).rest
    /\ run' = [Disturbed(QueueGet(queue).item) EXCEPT
                 ![<<"w", w>>] = [IdleRun EXCEPT !.pc = "mark", !.doc = QueueGet(queue).item,
                                                 !.solo = Active(QueueGet(queue).item) = {},
                                                 !.start = IF Active(QueueGet(queue).item) = {}
                                                           THEN Extracted(docs[QueueGet(queue).item])
                                                           ELSE Extracted(NoRow)]]
    /\ g' = [g EXCEPT ![QueueGet(queue).item].inv = "running",
                      ![QueueGet(queue).item].finBefore = {a \in DocIds : g[a].inv = "done"}]
    /\ UNCHANGED <<docs, unfinished, lock, running, thread, alive, up, nrp, nedit, env>>

\* _process_single_document: load the document, return when missing, else
\* processing_status = "processing" and commit
QMark(w) ==
    LET R == <<"w", w>>
        d == run[R].doc
    IN  /\ run[R].pc = "mark"
        /\ IF Exists(d)
           THEN /\ docs' = [docs EXCEPT ![d] = MarkProcessing(@)]
                /\ run' = [run EXCEPT ![R].pc = "load"]
                /\ UNCHANGED <<unfinished, g>>
           ELSE /\ run' = [run EXCEPT ![R] = IdleRun]
                /\ unfinished' = unfinished - 1
                /\ g' = [g EXCEPT ![d].inv = "done", ![d].qOut = "missing"]
                /\ UNCHANGED docs
        /\ UNCHANGED <<queue, lock, running, thread, alive, up, nrp, nedit, env>>

\* ---------------------------------------- DocumentProcessor.process steps
\* (run by a worker thread through process_document and by a reprocess request
\*  through reprocess_document; every step ends at a blocking call or a commit)

Others == <<queue, unfinished, lock, running, thread, alive, up, nrp, nedit, g, env>>

\* 1. load the document; ProcessingError(step="init") when missing; the OCR call starts
PLoad(R) ==
    /\ run[R].pc = "load"
    /\ run' = [run EXCEPT ![R] =
                 IF Exists(run[R].doc) THEN [@ EXCEPT !.pc = "ocr"]
                 ELSE [@ EXCEPT !.pc = "caught", !.exc = PE("init", "Document non trouve")]]
    /\ UNCHANGED docs
    /\ UNCHANGED Others

\* the confidence is left as it was
OcrFailureRow_KeepsConfidence(row, o) ==
    [row EXCEPT !.ocr_raw_text = Some(<<"[ERREUR OCR] ", o.error>>)]

\* the failure is recorded in the status columns as well
OcrFailureRow_SetsStatus(row, o) ==
    [row EXCEPT !.ocr_raw_text = Some(<<"[ERREUR OCR] ", o.error>>), !.ocr_confidence = Some(0),
                !.processing_status = "error", !.processing_error = Some(<<"ocr", ": ", o.error>>)]

\* if not ocr_result.success: ocr_raw_text = f"[ERREUR OCR] {error}", ocr_confidence = 0
OcrFailureRow(row, o) ==
    [row EXCEPT !.ocr_raw_text = Some(<<"[ERREUR OCR] ", o.error>>), !.ocr_confidence = Some(0)]

\* the OCR values are not written before the AI call
OcrSuccessRow_Deferred(row, o) == row

\* ocr_raw_text = ocr_result.text, ocr_confidence = ocr_result.confidence
OcrSuccessRow(row, o) ==
    [row EXCEPT !.ocr_raw_text = Some(o.text), !.ocr_confidence = Some(o.confidence)]

\* 2. the OCR call ends.  `await self.ocr_service.extract_text(...)` awaits the value
\*    of a synchronous method: the call yields an OCRResult when the service in use
\*    returns an awaitable, and raises (TypeError) when it does not.
\*    Failure: placeholder text, confidence 0, commit, ProcessingError(step="ocr").
\*    Success: text and confidence, commit; tags are loaded and the AI call starts.
POcr(R) ==
    LET d == run[R].doc
    IN  /\ run[R].pc = "ocr"
        /\ \E o \in {x \in OcrOutcomes : x.file \in env.files} :
             IF o.kind = "raise"
             THEN /\ run' = [run EXCEPT ![R].pc = "caught", ![R].ocr = o, ![R].exc = Exc(o.error)]
                  /\ UNCHANGED docs
             ELSE IF ~Exists(d)
             THEN /\ run' = [run EXCEPT ![R].pc = "caught", ![R].ocr = o,
                                        ![R].exc = Exc("StaleDataError")]
                  /\ UNCHANGED docs
             ELSE IF o.kind = "fail"
             THEN /\ docs' = [docs EXCEPT ![d] = OcrFailureRow(@, o)]
                  /\ run' = [run EXCEPT ![R].pc = "caught", ![R].ocr = o,
                                        ![R].exc = PE("ocr", IF o.error # "" THEN o.error
                                                             ELSE "Erreur OCR inconnue")]
             ELSE /\ docs' = [docs EXCEPT ![d] = OcrSuccessRow(@, o)]
                  /\ run' = [run EXCEPT ![R].pc = "ai", ![R].ocr = o]
        /\ UNCHANGED Others

\* a failed extraction is merged like any other
AiFailed_Never(res) == FALSE

\* if not extraction_result.success
AiFailed(res) == ~res.success

\* 4./5./5b. the AI call ends: ProcessingError(step="ai") on failure, else
\*    _update_document, the created_at fallback and commit
PAi(R) ==
    LET d == run[R].doc
    IN  /\ run[R].pc = "ai"
        /\ \E a \in IF RejectedLocally(run[R].ocr.text) THEN {NoAi}
                   ELSE {x \in AiOutcomes : x.k \in env.replies /\ x.form \in env.forms} :
             LET res == extract_data(run[R].ocr.text, a)
                 upd == _update_document(docs[d], res)
                 fields == [f \in EarlyFields |->
                              IF f \in upd.assigned THEN Some(upd.doc[f]) ELSE None]
                 merged == IF IsNone(upd.doc.date)
                           THEN [upd.doc EXCEPT !.date = Some(docs[d].created_at)]
                           ELSE upd.doc
             IN  IF AiFailed(res)
                 THEN /\ run' = [run EXCEPT ![R].pc = "caught", ![R].ai = a,
                                   ![R].exc = PE("ai", IF res.error # "" THEN res.error
                                                       ELSE "Erreur IA inconnue")]
                      /\ UNCHANGED docs
                 ELSE IF ~Exists(d)
                 THEN /\ run' = [run EXCEPT ![R].pc = "caught", ![R].ai = a,
                                            ![R].exc = Exc("ObjectDeletedError")]
                      /\ UNCHANGED docs
                 ELSE IF upd.raised
                 THEN /\ run' = [run EXCEPT ![R].pc = "caught", ![R].ai = a,
                                            ![R].exc = Exc("InvalidOperation"),
                                            ![R].pend = [NoPend EXCEPT !.fields = fields]]
                      /\ UNCHANGED docs
                 ELSE /\ docs' = [docs EXCEPT ![d] = merged]
                      /\ run' = [run EXCEPT ![R].pc = "items", ![R].ai = a]
        /\ UNCHANGED Others

\* 6. _create_items: the DELETE of the document's items, then the Item(...) loop
PItems(R) ==
    LET d == run[R].doc
        res == extract_data(run[R].ocr.text, run[R].ai)
        new == NewItems(res.items)
    IN  /\ run[R].pc = "items"
        /\ IF ~Exists(d)
           THEN /\ run' = [run EXCEPT ![R].pc = "caught", ![R].exc = Exc("ObjectDeletedError")]
                /\ UNCHANGED docs
           ELSE /\ docs' = [b \in DocIds |->
                               IF DeleteCovers(b, d) THEN [docs[b] EXCEPT !.items = MarkDeleted(@, R)]
                               ELSE docs[b]]
                /\ run' = [run EXCEPT
                             ![R].pc = IF new.raised THEN "caught" ELSE "commit_items",
                             ![R].exc = IF new.raised THEN Exc("InvalidOperation") ELSE @,
                             ![R].pend = [NoPend EXCEPT !.del = TRUE, !.rows = new.rows]]
        /\ UNCHANGED Others

\* 6. the commit after _create_items
PItemsCommit(R) ==
    LET d == run[R].doc
    IN  /\ run[R].pc = "commit_items"
        /\ IF ~Exists(d)
           THEN /\ run' = [run EXCEPT ![R].pc = "caught", ![R].pend = NoPend,
                                      ![R].exc = Exc("IntegrityError")]
                /\ UNCHANGED docs
           ELSE /\ docs' = [docs EXCEPT ![d] = Flush(@, R, run[R].pend)]
                /\ run' = [run EXCEPT ![R].pc = "tags", ![R].pend = NoPend]
        /\ UNCHANGED Others

\* 7. _assign_suggested_tags, commit, refresh; process returns
PTags(R) ==
    LET d == run[R].doc
        res == extract_data(run[R].ocr.text, run[R].ai)
    IN  /\ run[R].pc = "tags"
        /\ IF ~Exists(d)
           THEN /\ run' = [run EXCEPT ![R].pc = "caught", ![R].exc = Exc("ObjectDeletedError")]
                /\ UNCHANGED docs
           ELSE IF AssociatedTwice(docs[d].tags, _assign_suggested_tags(docs[d].tags, res, UserTags))
           THEN /\ run' = [run EXCEPT ![R].pc = "caught", ![R].exc = Exc("IntegrityError")]
                /\ UNCHANGED docs
           ELSE /\ docs' = [docs EXCEPT ![d].tags =
                               @ \cup Range(_assign_suggested_tags(@, res, UserTags))]
                /\ run' = [run EXCEPT ![R].pc = "returned"]
        /\ UNCHANGED Others

\* ------------------------------------- _process_single_document: the end
\* the step label is left out
StepMessage_NoStep(e) == Some(<<e.message>>)

\* f"{e.step}: {e.message}"
StepMessage(e) == Some(<<e.step, ": ", e.message>>)

\* str(e)
StrOfExc(e) == Some(<<e.message>>)

\* the error text is written, the status is not
ErrorRow_TextOnly(row, text) == [row EXCEPT !.processing_error = text]

\* document.processing_status = "error"; document.processing_error = text
ErrorRow(row, text) == [row EXCEPT !.processing_status = "error", !.processing_error = text]

\* success branch: processing_status = "completed", processing_error = None, commit;
\* back in _worker: task_done().  A missing document makes the branch raise
\* AttributeError, which the `except Exception` clause of the same try takes.
QSuccess(w) ==
    LET R == <<"w", w>>
        d == run[R].doc
        row == [docs[d] EXCEPT !.processing_status = "completed", !.processing_error = None]
    IN  /\ run[R].pc = "returned"
        /\ IF Exists(d)
           THEN /\ docs' = [docs EXCEPT ![d] = row]
                /\ run' = [run EXCEPT ![R] = IdleRun]
                /\ unfinished' = unfinished - 1
                /\ g' = [g EXCEPT ![d] = [EndOfRun(d, R, "merged", row) EXCEPT
                                            !.inv = "done", !.qOut = "merged"]]
           ELSE /\ run' = [run EXCEPT ![R].pc = "caught", ![R].exc = Exc("AttributeError")]
                /\ UNCHANGED <<docs, unfinished, g>>
        /\ UNCHANGED <<queue, lock, running, thread, alive, up, nrp, nedit, env>>

\* what the two except clauses do with the error text they computed: write it with
\* status "error" and commit (the commit flushes what the session still holds), then
\* task_done(); with the document missing they raise and _worker's except takes over
QRecord(w, outcome, text) ==
    LET R == <<"w", w>>
        d == run[R].doc
        row == ErrorRow(Flush(docs[d], R, run[R].pend), text)
    IN  /\ IF Exists(d)
           THEN /\ docs' = [docs EXCEPT ![d] = row]
                /\ unfinished' = unfinished - 1
                /\ g' = [g EXCEPT ![d] = [EndOfRun(d, R, outcome, row) EXCEPT
                                            !.inv = "done", !.qOut = outcome]]
                /\ UNCHANGED alive
           ELSE /\ g' = [g EXCEPT ![d] = [EndOfRun(d, R, outcome, docs[d]) EXCEPT
                                            !.inv = "done", !.qOut = "lost"]]
                /\ alive' = AfterEscape(w)
                /\ UNCHANGED <<docs, unfinished>>
        /\ run' = [run EXCEPT ![R] = IdleRun]
        /\ UNCHANGED <<queue, lock, running, thread, up, nrp, nedit, env>>

\* except ProcessingError as e
QHandlePE(w) ==
    /\ run[<<"w", w>>].pc = "caught"
    /\ run[<<"w", w>>].exc.type = "PE"
    /\ QRecord(w, run[<<"w", w>>].exc.step, StepMessage(run[<<"w", w>>].exc))

\* except Exception as e
QHandleExc(w) ==
    /\ run[<<"w", w>>].pc = "caught"
    /\ run[<<"w", w>>].exc.type = "Exc"
    /\ QRecord(w, "exc", StrOfExc(run[<<"w", w>>].exc))

\* ------------------------------------------------------ request handlers
\* reprocess_document_endpoint: the document exists and has its file; the
\* pipeline is entered through reprocess_document
RpStart(d) ==
    /\ run[<<"rp", d>>].pc = "idle"
    /\ nrp[d] < MaxReprocess
    /\ d \in env.reprocess
    /\ Exists(d)
    /\ run' = [Disturbed(d) EXCEPT
                 ![<<"rp", d>>] = [IdleRun EXCEPT !.pc = "load", !.doc = d,
                                                  !.solo = Active(d) = {},
                                                  !.start = IF Active(d) = {} THEN Extracted(docs[d])
                                                            ELSE Extracted(NoRow)]]
    /\ nrp' = [nrp EXCEPT ![d] = @ + 1]
    /\ UNCHANGED <<docs, queue, unfinished, lock, running, thread, alive, up, nedit, g, env>>

\* reprocess_document returned: refresh, build the response
RpReturn(d) ==
    LET R == <<"rp", d>>
    IN  /\ run[R].pc = "returned"
        /\ run' = [run EXCEPT ![R] = IdleRun]
        /\ g' = [g EXCEPT ![d] = EndOfRun(d, R, "merged", docs[d])]
        /\ UNCHANGED <<docs, queue, unfinished, lock, running, thread, alive, up, nrp, nedit, env>>

\* reprocess_document raised: HTTP 500; get_db closes the session, which rolls
\* back whatever it had not committed
RpFail(d) ==
    LET R == <<"rp", d>>
        row == [docs[d] EXCEPT !.items = Unmark(@, R)]
    IN  /\ run[R].pc = "caught"
        /\ docs' = [docs EXCEPT ![d] = row]
        /\ run' = [run EXCEPT ![R] = IdleRun]
        /\ g' = [g EXCEPT ![d] = EndOfRun(d, R, IF run[R].exc.type = "PE"
                                                THEN run[R].exc.step ELSE "exc", row)]
        /\ UNCHANGED <<queue, unfinished, lock, running, thread, alive, up, nrp, nedit, env>>

sEdited == <<"E", "d", "i", "t">>
\* the DocumentUpdate bodies the model sends (fields left unset: None)
EditRequests ==
    { [merchant |-> Some(sEdited), tag_ids |-> None],
      [merchant |-> None, tag_ids |-> Some({2})] }

\* update_document: set the supplied fields, replace the tags when supplied, commit
UpdateDocument(d) ==
    /\ Exists(d)
    /\ env.edits
    /\ nedit < MaxEdits
    /\ \E req \in EditRequests :
         docs' = [docs EXCEPT
                    ![d].merchant = IF IsNone(req.merchant) THEN @ ELSE req.merchant,
                    ![d].tags = IF IsNone(req.tag_ids) THEN @ ELSE Val(req.tag_ids)]
    /\ nedit' = nedit + 1
    /\ run' = Disturbed(d)
    /\ g' = [g EXCEPT ![d].clean = FALSE]
    /\ UNCHANGED <<queue, unfinished, lock, running, thread, alive, up, nrp, env>>

\* delete_document: the row goes, with its items and tag associations
DeleteDocument(d) ==
    /\ Exists(d)
    /\ d \in env.deletes
    /\ docs' = [docs EXCEPT ![d] = [NoRow EXCEPT !.exists = "deleted"]]
    /\ run' = Disturbed(d)
    /\ g' = [g EXCEPT ![d].clean = FALSE]
    /\ UNCHANGED <<queue, unfinished, lock, running, thread, alive, up, nrp, nedit, env>>

\* ---------------------------------------------------------- specification
WorkerNext ==
    \E w \in WorkerIds :
        \/ WorkerGet(w) \/ QMark(w) \/ QSuccess(w) \/ QHandlePE(w) \/ QHandleExc(w)
        \/ PLoad(<<"w", w>>) \/ POcr(<<"w", w>>) \/ PAi(<<"w", w>>)
        \/ PItems(<<"w", w>>) \/ PItemsCommit(<<"w", w>>) \/ PTags(<<"w", w>>)

AddNext == \E d \in DocIds : AddPut(d) \/ StartAcquire(d) \/ StartCheck(d) \/ StartSpawn(d)

ReprocessNext ==
    \E d \in DocIds :
        \/ RpStart(d) \/ RpReturn(d) \/ RpFail(d)
        \/ PLoad(<<"rp", d>>) \/ POcr(<<"rp", d>>) \/ PAi(<<"rp", d>>)
        \/ PItems(<<"rp", d>>) \/ PItemsCommit(<<"rp", d>>) \/ PTags(<<"rp", d>>)

Next ==
    \/ \E d \in DocIds : Upload(d)
    \/ AddNext
    \/ WorkerNext
    \/ ReprocessNext
    \/ \E d \in DocIds : UpdateDocument(d)
    \/ \E d \in DocIds : DeleteDocument(d)

Spec == Init /\ [][Next]_vars

\* the scheduler runs every thread that can take a step (worker and upload requests),
\* and the two adapters answer within their timeouts
FairSpec == Spec /\ WF_vars(WorkerNext) /\ WF_vars(AddNext)

\* ------------------------------------------------------------- properties
InQueue(d) == \E i \in 1..Len(queue) : queue[i] = d
Busy == {R \in Runners : run[R].pc # "idle"}
NoReprocess == \A d \in DocIds : run[<<"rp", d>>].pc = "idle"
Failed(d) == g[d].qOut \in {"ocr", "ai", "init", "exc", "lost"}

\* C1: at most one worker thread is alive and at most one queue invocation of
\* _process_single_document is in progress; with no reprocess request in flight
\* at most one pipeline run is in progress at all.
C1_AtMostOneInFlight ==
    /\ Cardinality(alive) <= 1
    /\ Cardinality(Busy \cap Workers) <= 1
    /\ NoReprocess => Cardinality(Busy) <= 1

\* a worker is inside the OCR step while another identifier waits in the queue and
\* both upload requests have been through start()
C1_Witness ==
    /\ \E w \in WorkerIds : run[<<"w", w>>].pc = "ocr"
    /\ queue # <<>>
    /\ \A d \in DocIds : up[d].pc = "done"

\* C2: if add(A) returned before add(B) was called, the invocation for A has ended
\* when the invocation for B starts.
C2_Fifo ==
    \A b \in DocIds : g[b].inv # "no" => g[b].before \subseteq g[b].finBefore

\* the invocation for a document started, and another add had returned before its own
C2_Witness ==
    \E b \in DocIds : g[b].inv # "no" /\ g[b].before # {}

\* C3: once the processing of a dequeued document has raised, every identifier in
\* the queue (already there or put later) is eventually dequeued and its
\* invocation ends: the worker loop keeps running.
C3_WorkerSurvives ==
    \A d \in DocIds :
        ((\E a \in DocIds : Failed(a)) /\ InQueue(d)) ~> (g[d].inv = "done")

\* an exception escaped _process_single_document for one document (the row was
\* gone when the handler wanted to record the error), and a document dequeued after
\* that has been processed
C3_Witness ==
    \E a, d \in DocIds :
        /\ a # d
        /\ g[a].qOut = "lost"
        /\ a \in g[d].finBefore
        /\ g[d].inv = "done"

\* the reason the failing adapter gave to the run that caught it
UnderlyingReason(r) ==
    IF r.exc.step = "ocr" THEN r.ocr.error ELSE extract_data(r.ocr.text, r.ai).error

\* a queue run on w ends in this step
QueueRunEnds(w) == run[<<"w", w>>].pc # "idle" /\ run'[<<"w", w>>].pc = "idle"

\* C4: a queue run in which a ProcessingError of step "ocr" or "ai" was raised
\* ends with processing_status = "error" and processing_error = "<step>: <reason>",
\* and the document is not completed by that run.
C4_QueueErrorRecorded ==
    /\ [][\A w \in WorkerIds :
            LET r == run[<<"w", w>>]
            IN  ( /\ QueueRunEnds(w)
                  /\ r.exc.type = "PE" /\ r.exc.step \in {"ocr", "ai"}
                  /\ docs'[r.doc].exists = "yes" )
                => /\ docs'[r.doc].processing_status = "error"
                   /\ UnderlyingReason(r) # ""
                   /\ docs'[r.doc].processing_error
                        = Some(<<r.exc.step, ": ", UnderlyingReason(r)>>)]_vars
    /\ [](\A d \in DocIds :
            (g[d].qOut \in {"ocr", "ai"} /\ Exists(d) /\ nrp[d] = 0)
            => docs[d].processing_status = "error")

\* both kinds of failure have been recorded by the queue handler on a stored document
C4_Witness ==
    \E d \in DocIds :
        /\ g[d].qOut = "ai"
        /\ Exists(d)
        /\ docs[d].processing_status = "error"
        /\ docs[d].processing_error = Some(<<"ai", ": ", "Timeout lors de l'appel a Ollama">>)

LegalTransitions ==
    { <<"pending", "processing">>, <<"processing", "completed">>,
      <<"processing", "error">>, <<"completed", "processing">>,
      <<"error", "processing">> }

\* C5: processing_status of a stored document only moves along pending ->
\* processing, processing -> completed, processing -> error, completed ->
\* processing, error -> processing.
C5_LegalTransitions ==
    [][\A d \in DocIds :
         ( /\ Exists(d) /\ docs'[d].exists = "yes"
           /\ docs'[d].processing_status # docs[d].processing_status )
         => <<docs[d].processing_status, docs'[d].processing_status>> \in LegalTransitions]_vars

\* a document went through the queue to a final status, was reprocessed and edited
C5_Witness ==
    \E d \in DocIds :
        /\ Exists(d)
        /\ docs[d].processing_status \in {"completed", "error"}
        /\ g[d].inv = "done"
        /\ nrp[d] > 0
        /\ nedit > 0

\* C8: processing_error is non-null only while processing_status is "error".
C8_ErrorOnlyWithErrorStatus ==
    \A d \in DocIds :
        (Exists(d) /\ ~IsNone(docs[d].processing_error))
        => docs[d].processing_status = "error"

\* an error text is stored on a document that has since been reprocessed
C8_Witness ==
    \E d \in DocIds :
        /\ Exists(d)
        /\ ~IsNone(docs[d].processing_error)
        /\ nrp[d] > 0
        /\ run[<<"rp", d>>].pc = "idle"

\* C6: while the OCR call of a reprocess request is in flight on a document that
\* the queue had brought to completed or error (and nothing else touched it since
\* the request began), the stored processing_status is "processing".
C6_ReprocessMarksProcessing ==
    \A d \in DocIds :
        ( /\ run[<<"rp", d>>].pc = "ocr"
          /\ run[<<"rp", d>>].solo
          /\ Exists(d)
          /\ g[d].inv = "done" )
        => docs[d].processing_status = "processing"

\* C7: with no run in progress on a stored document that the queue has processed,
\* and whose last run (queue or reprocess) ran alone and was followed by no edit,
\* processing_status tells how that last run went: completed with no error text
\* after a run that merged, error after a run that failed.
C7_StatusOfLastRun ==
    \A d \in DocIds :
        (Exists(d) /\ Active(d) = {} /\ g[d].inv = "done" /\ g[d].clean)
        => /\ g[d].lastOut = "merged"
                => /\ docs[d].processing_status = "completed"
                   /\ IsNone(docs[d].processing_error)
           /\ g[d].lastOut # "merged" => docs[d].processing_status = "error"

\* the values of a parsed reply as the claim expects them on the row
ValuesPersisted(row, res) ==
    /\ (~IsNone(res.merchant) /\ Val(res.merchant) # <<>>) => row.merchant = res.merchant
    /\ (~IsNone(res.date) /\ ~IsNone(_parse_date(Val(res.date))))
           => row.date = _parse_date(Val(res.date))
    /\ (~IsNone(res.total_amount) /\ Val(res.total_amount).t = "num")
           => row.total_amount = Some(Val(res.total_amount).v)
    /\ Len(row.items) = Len(res.items)
    /\ \A i \in 1..Len(res.items) :
           i <= Len(row.items) => row.items[i].name = res.items[i].name

\* a step that ends a queue run whose OCR succeeded and whose reply, one of K,
\* parsed leaves the document completed, without error text, with the parsed values
QueueRunCompletes(K) ==
    \A w \in WorkerIds :
        LET r == run[<<"w", w>>]
        IN  ( /\ QueueRunEnds(w)
              /\ r.ocr.kind = "ok" /\ r.ai.kind = "reply" /\ r.ai.k \in K
              /\ extract_data(r.ocr.text, r.ai).success
              /\ docs'[r.doc].exists = "yes" )
            => /\ docs'[r.doc].processing_status = "completed"
               /\ IsNone(docs'[r.doc].processing_error)
               /\ r.solo => ValuesPersisted(docs'[r.doc], extract_data(r.ocr.text, r.ai))

\* C9: a queue run whose OCR succeeded and whose reply parsed into a JSON object
\* ends with processing_status = "completed", processing_error null and the parsed
\* merchant, date, amount and items on the row.
C9_OcrAndReplyComplete == [][QueueRunCompletes(1..NTexts)]_vars

\* C10: a run repeated on an untouched document with the same OCR text and the
\* same reply leaves the same extracted fields, the same number of items and the
\* same tag set as the run before it.
C10_Idempotent ==
    \A d \in DocIds : g[d].twice # "diff"

\* the scenario reply was merged twice in a row and the document has its one item
C10_Witness ==
    \E d \in DocIds :
        /\ g[d].twice = "same"
        /\ g[d].lastOut = "merged"
        /\ g[d].lastIn[2].k = 1
        /\ Exists(d)
        /\ Len(docs[d].items) = 1

\* the runs that have received a reply written from one of the objects of Replies
GotObject == {R \in Runners : run[R].ai.kind = "reply" /\ run[R].ai.k <= Len(Replies)}

\* C11: whatever form the reply text of a schema object took (bare, fenced code
\* block, line comment, trailing comma, surrounding prose), the extraction result
\* is the one of the bare minified text of the same object.
C11_FormsParseAlike ==
    \A R \in GotObject :
        extract_data(run[R].ocr.text, run[R].ai)
            = extract_data(run[R].ocr.text, [run[R].ai EXCEPT !.form = "bare"])

\* a reply in fenced form, read successfully, has been received
C11_Witness ==
    \E R \in GotObject :
        run[R].ai.form = "fenced" /\ extract_data(run[R].ocr.text, run[R].ai).success

\* the extraction result holds no date that _parse_date recognizes
NoDate(res) ==
    IsNone(res.date) \/ Val(res.date) = <<>> \/ IsNone(_parse_date(Val(res.date)))

\* run R, alone on its document, returns from process() in this step
RunSucceeds(R) ==
    /\ run[R].pc = "returned" /\ run'[R].pc = "idle"
    /\ run[R].solo
    /\ docs'[run[R].doc].exists = "yes"

\* C12: after a successful pipeline run (queue or reprocess) whose extraction
\* result holds no recognized date, the document's date is the date of its
\* created_at.
C12_DateFallback ==
    [][\A R \in Runners :
         (RunSucceeds(R) /\ NoDate(extract_data(run[R].ocr.text, run[R].ai)))
         => docs'[run[R].doc].date = Some(docs'[run[R].doc].created_at)]_vars

\* a reprocess run whose reply had no recognized date has succeeded on a document
\* that already had a date
C12_Witness ==
    \E d \in DocIds :
        /\ Exists(d) /\ nrp[d] > 0 /\ Active(d) = {}
        /\ g[d].lastOut = "merged" /\ g[d].clean
        /\ g[d].lastIn[2].kind = "reply"
        /\ NoDate(extract_data(g[d].lastIn[1].text, g[d].lastIn[2]))
        /\ docs[d].date # Some(docs[d].created_at)

\* the reply of run r holds no JSON object that can be recovered: nothing to
\* extract, or an extracted text that json.loads rejects
NoJson(r) ==
    /\ r.ocr.kind = "ok" /\ r.ai.kind = "reply"
    /\ ~Parsed[r.ai.k][r.ai.form].raised
    /\ Parsed[r.ai.k][r.ai.form].result.error
         \in {"Impossible d'extraire le JSON de la reponse", "JSON invalide"}

\* C13: a queue run whose OCR succeeded and whose reply holds no recoverable JSON
\* object ends with processing_status = "error", an error text tagged "ai", and
\* ocr_raw_text / ocr_confidence as the OCR step wrote them.
C13_NoJsonIsAiError ==
    [][\A w \in WorkerIds :
         LET r == run[<<"w", w>>]
         IN  (QueueRunEnds(w) /\ NoJson(r) /\ r.solo /\ docs'[r.doc].exists = "yes")
             => /\ docs'[r.doc].processing_status = "error"
                /\ docs'[r.doc].processing_error
                     = Some(<<"ai", ": ", Parsed[r.ai.k][r.ai.form].result.error>>)
                /\ docs'[r.doc].ocr_raw_text = Some(r.ocr.text)
                /\ docs'[r.doc].ocr_confidence = Some(r.ocr.confidence)]_vars

\* the queue run that received the reply "Sorry, I cannot process this." has ended
\* in error on a stored document
C13_Witness ==
    \E d \in DocIds :
        /\ Exists(d) /\ g[d].qOut = "ai" /\ g[d].inv = "done"
        /\ g[d].lastIn[2].kind = "reply"
        /\ ReplyText(g[d].lastIn[2].k, g[d].lastIn[2].form) = sSorry
        /\ docs[d].processing_status = "error"
        /\ docs[d].ocr_raw_text = Some(g[d].lastIn[1].text)

Final == {"completed", "error"}

\* C14: under fair scheduling of the worker thread and of the upload requests,
\* every document taken from the queue has its invocation end, with status
\* completed or error if the document is still stored; and no stored document
\* stays pending or processing forever.
C14_EveryRunEnds ==
    \A d \in DocIds :
        /\ (g[d].inv = "running")
             ~> (g[d].inv = "done" /\ (Exists(d) => docs[d].processing_status \in Final))
        /\ (Exists(d) /\ docs[d].processing_status \notin Final)
             ~> (~Exists(d) \/ docs[d].processing_status \in Final)

\* every document was uploaded and dequeued, one invocation ended completed and
\* another in error
C14_Witness ==
    /\ \A d \in DocIds : g[d].inv = "done"
    /\ \E d \in DocIds : Exists(d) /\ docs[d].processing_status = "completed"
    /\ \E d \in DocIds : Exists(d) /\ docs[d].processing_status = "error"

\* C15: while the OCR call of any pipeline run (queue or reprocess) is in flight on
\* a stored document that no other request touches, the stored processing_status is
\* "processing".
C15_ProcessingBeforeOcr ==
    \A R \in Runners :
        (run[R].pc = "ocr" /\ run[R].solo /\ Exists(run[R].doc))
        => docs[run[R].doc].processing_status = "processing"

\* the OCR call of a reprocess run is in flight on a document that the queue has
\* already processed
C15_Witness ==
    \E d \in DocIds :
        /\ run[<<"rp", d>>].pc = "ocr" /\ run[<<"rp", d>>].solo
        /\ Exists(d) /\ g[d].inv = "done"

\* run R, alone on its document, ends in this step and the document is stored
RunEnds(R) ==
    /\ run[R].pc # "idle" /\ run'[R].pc = "idle"
    /\ run[R].solo
    /\ docs'[run[R].doc].exists = "yes"

HoldsOcr(row, o) ==
    row.ocr_raw_text = Some(o.text) /\ row.ocr_confidence = Some(o.confidence)

\* C17: while the AI call of a run is in flight the stored row already holds the
\* text and confidence of that run's OCR result, and the row still holds them when
\* the run has ended with the AI step failed.
C17_OcrKeptAcrossAi ==
    /\ [](\A R \in Runners :
            (run[R].pc = "ai" /\ run[R].solo /\ Exists(run[R].doc))
            => HoldsOcr(docs[run[R].doc], run[R].ocr))
    /\ [][\A R \in Runners :
            ( /\ RunEnds(R) /\ run[R].ocr.kind = "ok"
              /\ run[R].exc.type = "PE" /\ run[R].exc.step = "ai" )
            => HoldsOcr(docs'[run[R].doc], run[R].ocr)]_vars

\* a run whose OCR succeeded and whose reply could not be read has ended, and the
\* row holds the OCR text
C17_Witness ==
    \E d \in DocIds :
        /\ Exists(d) /\ Active(d) = {}
        /\ g[d].lastOut = "ai" /\ g[d].clean
        /\ g[d].lastIn[2].kind = "reply"
        /\ HoldsOcr(docs[d], g[d].lastIn[1])

\* the AI step of run r failed: the backend call failed or its reply was not read
\* into a result
AiStepFailed(r) ==
    r.ocr.kind = "ok" /\ r.ai.kind # "none" /\ ~extract_data(r.ocr.text, r.ai).success

\* C18: when the AI step of a run fails, the run ends on ProcessingError(step="ai")
\* with doc_type, date, time, merchant, location, total_amount, currency,
\* is_income, the items and the tags exactly as they were when the run began.
C18_AiFailureKeepsFields ==
    [][\A R \in Runners :
         (RunEnds(R) /\ AiStepFailed(run[R]))
         => /\ run[R].exc.type = "PE" /\ run[R].exc.step = "ai"
            /\ Extracted(docs'[run[R].doc]) = run[R].start]_vars

\* a reprocess run whose AI step failed has ended on a document that holds a
\* merchant, items and tags from an earlier run
C18_Witness ==
    \E d \in DocIds :
        /\ Exists(d) /\ Active(d) = {} /\ nrp[d] > 0
        /\ g[d].lastOut = "ai" /\ g[d].clean
        /\ ~IsNone(docs[d].merchant) /\ docs[d].items # <<>> /\ docs[d].tags # {}

\* the columns _update_document merges, with the JSON type _parse_response asks for
MergedFields ==
    [ doc_type |-> "str", date |-> "str", time |-> "str", merchant |-> "str",
      location |-> "str", total_amount |-> "number", currency |-> "str", is_income |-> "bool" ]

\* the reply of run r was read as the object Replies[k]
ReadObject(r) ==
    /\ r.ocr.kind = "ok" /\ r.ai.kind = "reply" /\ r.ai.k <= Len(Replies)
    /\ extract_data(r.ocr.text, r.ai).success

\* the object holds a value of the expected type under the key
Supplied(data, key) == ~IsNone(_safe_get(data, key, MergedFields[key]))

\* the object supplies no field, no item and no tag
NoUsableFields(data) ==
    /\ \A key \in DOMAIN MergedFields : ~Supplied(data, key)
    /\ ParseFields(data).items = <<>>
    /\ ParseFields(data).suggested_tags = <<>>

\* C19: a queue run whose reply is a well-formed JSON object without any usable
\* field (such as {}) ends with processing_status = "error" and an error text
\* tagged "ai".
C19_EmptyObjectIsAiError ==
    [][\A w \in WorkerIds :
         LET r == run[<<"w", w>>]
         IN  ( /\ QueueRunEnds(w) /\ ReadObject(r) /\ NoUsableFields(Replies[r.ai.k])
               /\ docs'[r.doc].exists = "yes" )
             => /\ docs'[r.doc].processing_status = "error"
                /\ ~IsNone(docs'[r.doc].processing_error)
                /\ Val(docs'[r.doc].processing_error)[1] = "ai"]_vars

\* the queue run that received {} has ended on a stored document
C19_Witness ==
    \E d \in DocIds :
        /\ Exists(d) /\ g[d].inv = "done" /\ nrp[d] = 0
        /\ g[d].lastIn[2].kind = "reply" /\ g[d].lastIn[2].k <= Len(Replies)
        /\ NoUsableFields(Replies[g[d].lastIn[2].k])
        /\ docs[d].processing_status = "completed"

\* C20: after a successful run, every merged column whose key the reply left out,
\* set to null or gave with the wrong type holds the value it had when the run
\* began (date: or the created_at date, when the document had no date).
C20_AbsentKeepsValue ==
    [][\A R \in Runners :
         (RunSucceeds(R) /\ ReadObject(run[R]))
         => \A key \in DOMAIN MergedFields :
              Supplied(Replies[run[R].ai.k], key)
              \/ docs'[run[R].doc][key] = run[R].start[key]
              \/ ( /\ key = "date" /\ IsNone(run[R].start.date)
                   /\ docs'[run[R].doc].date = Some(docs'[run[R].doc].created_at) )]_vars

\* a reprocess run whose reply supplied no currency has merged its result into a
\* document whose currency an earlier run had set to something else than EUR
C20_Witness ==
    \E d \in DocIds :
        LET r == run[<<"rp", d>>]
        IN  /\ r.pc = "tags" /\ r.solo /\ Exists(d)
            /\ ReadObject(r) /\ ~Supplied(Replies[r.ai.k], "currency")
            /\ r.start.currency # sEUR
            /\ docs[d].currency = sEUR

\* the Item rows attached to a document, whatever open transaction has deleted them
Rows(items) == [i \in 1..Len(items) |-> [items[i] EXCEPT !.del = {}]]

\* the Item rows _create_items builds from the extraction of run r
CreatedFrom(r) == NewItems(extract_data(r.ocr.text, r.ai).items).rows

\* run R returns from process and its document is still stored
RunReturns(R) ==
    run[R].pc = "returned" /\ run'[R].pc = "idle" /\ docs'[run[R].doc].exists = "yes"

\* C21: after every successful run the Items of the document are exactly the rows
\* created from the latest extraction (the run's own or, when another run on the
\* document overlapped with it, that other run's); no row of an earlier run stays.
C21_ItemsReplaced ==
    [][\A R \in Runners :
         RunReturns(R)
         => \/ Rows(docs'[run[R].doc].items) = CreatedFrom(run[R])
            \/ /\ ~run[R].solo
               /\ \E a \in AiOutcomes :
                    Rows(docs'[run[R].doc].items) = CreatedFrom([run[R] EXCEPT !.ai = a])]_vars

\* the last run on a document has returned and the document holds rows that no
\* single extraction created
C21_Witness ==
    \E d \in DocIds :
        /\ Exists(d) /\ Active(d) = {} /\ g[d].lastOut = "merged"
        /\ \A a \in AiOutcomes :
             Rows(docs[d].items) # CreatedFrom([ocr |-> g[d].lastIn[1], ai |-> a])

\* tag t belongs to the owner and its name is one of the suggested names, letter
\* case aside
SuggestedTag(t, names) ==
    \E i \in 1..Len(UserTags) :
        /\ UserTags[i].id = t
        /\ \E j \in 1..Len(names) : Lower(UserTags[i].name) = Lower(names[j])

\* the step is one of a pipeline run: not an upload, an edit or a delete of d
PipelineStep(d) == nedit' = nedit /\ docs'[d].exists = docs[d].exists

\* C22: no step of a pipeline run removes a tag from its document; every tag a
\* step adds is a tag of the owner whose name equals, letter case aside, a name
\* the reply of the run suggested; no association is inserted twice.
C22_TagsOnlyAdded ==
    [][\A d \in DocIds :
         PipelineStep(d)
         => /\ docs[d].tags \subseteq docs'[d].tags
            /\ \A R \in Active(d) :
                 run[R].pc = "tags"
                 => ~AssociatedTwice(docs[d].tags,
                        _assign_suggested_tags(docs[d].tags,
                            extract_data(run[R].ocr.text, run[R].ai), UserTags))
            /\ \A t \in docs'[d].tags \ docs[d].tags :
                 \E R \in Active(d) :
                    /\ run[R].pc = "tags" /\ run'[R].pc = "returned"
                    /\ SuggestedTag(t, extract_data(run[R].ocr.text, run[R].ai).suggested_tags)]_vars

\* a reprocess run has returned whose reply suggested a tag the document already
\* had, a name no tag of the owner bears and a tag the document gained
C22_Witness ==
    \E d \in DocIds :
        LET r == run[<<"rp", d>>]
            names == extract_data(r.ocr.text, r.ai).suggested_tags
        IN  /\ r.pc = "returned" /\ r.solo /\ Exists(d)
            /\ \E t \in r.start.tags : SuggestedTag(t, names)
            /\ \E j \in 1..Len(names) : IsNone(TagMapGet(UserTags, Lower(names[j])))
            /\ r.start.tags # {} /\ r.start.tags \subseteq docs[d].tags

\* what _parse_response has to read in each reply text: the value json.loads gives
\* for the text _extract_json recovers, None when there is nothing to read
Recovered ==
    [k \in 1..NTexts |-> [f \in Forms |->
        Bind(_extract_json(Strip(ReplyText(k, f))), LAMBDA json_str :
            IF IsNone(json_str) \/ Val(json_str) = <<>> THEN None
            ELSE loads(Val(json_str)))]]

\* the text holds no JSON object to read: nothing recovered, invalid JSON, or a
\* JSON value that is not an object
NoObjectIn(k, f) == IsNone(Recovered[k][f]) \/ Val(Recovered[k][f]).t # "obj"

\* C23: for every reply text a run receives, _parse_response returns a result and
\* does not raise; when the text holds no brace region, no valid JSON or a JSON
\* value that is not an object, the result has success = False and carries the
\* reply text unchanged.
C23_ParseNeverRaises ==
    \A R \in Runners :
        run[R].ai.kind = "reply"
        => LET p == Parsed[run[R].ai.k][run[R].ai.form]
           IN  /\ ~p.raised
               /\ NoObjectIn(run[R].ai.k, run[R].ai.form)
                  => /\ ~p.result.success
                     /\ p.raw_response = ReplyText(run[R].ai.k, run[R].ai.form)

\* a run has received a reply whose JSON value is a list
C23_Witness ==
    \E R \in Runners :
        /\ run[R].ai.kind = "reply"
        /\ ~IsNone(Recovered[run[R].ai.k][run[R].ai.form])
        /\ Val(Recovered[run[R].ai.k][run[R].ai.form]).t = "list"

\* the JSON type of each expected Python type, and the keys of an items entry
JsonType == [str |-> "str", number |-> "num", bool |-> "bool"]
ItemFields ==
    [ name |-> "str", quantity |-> "number", unit_price |-> "number", total_price |-> "number" ]

\* the object holds under the key a value of another JSON type than the expected one
WrongType(data, key, type) ==
    key \in DOMAIN data /\ data[key].t \notin {"null", JsonType[type]}

\* the items entries of the object that are objects themselves
ItemObjects(data) ==
    IF "items" \in DOMAIN data /\ data["items"].t = "list"
    THEN {data["items"].v[i].v : i \in {j \in 1..Len(data["items"].v) : data["items"].v[j].t = "obj"}}
    ELSE {}

\* C24: when _parse_response reads a JSON object, a value of another JSON type than
\* the expected one (a boolean under a number key and a number under a boolean key
\* included) is treated as absent, at the top level and in every items entry; the
\* parse succeeds and the merge that follows does not fail.
C24_TypedOrAbsent ==
    \A R \in Runners :
        LET r == run[R]
        IN  (r.ocr.kind = "ok" /\ r.ai.kind = "reply" /\ ~NoObjectIn(r.ai.k, r.ai.form))
            => LET data == Val(Recovered[r.ai.k][r.ai.form]).v
               IN  /\ extract_data(r.ocr.text, r.ai).success
                   /\ \A key \in DOMAIN MergedFields :
                        WrongType(data, key, MergedFields[key])
                        => IsNone(_safe_get(data, key, MergedFields[key]))
                   /\ \A item \in ItemObjects(data) : \A key \in DOMAIN ItemFields :
                        WrongType(item, key, ItemFields[key])
                        => IsNone(_safe_get(item, key, ItemFields[key]))
                   /\ r.exc.message # "InvalidOperation"

\* a run has read an object with a boolean under total_amount and with a number
\* under is_income or doc_type
C24_Witness ==
    \E R \in Runners :
        LET r == run[R]
        IN  /\ r.ocr.kind = "ok" /\ r.ai.kind = "reply" /\ ~NoObjectIn(r.ai.k, r.ai.form)
            /\ "total_amount" \in DOMAIN Val(Recovered[r.ai.k][r.ai.form]).v
            /\ Val(Recovered[r.ai.k][r.ai.form]).v["total_amount"].t = "bool"
            /\ r.pc = "caught"

\* the text is empty or holds white space only
Blank(text) == \A i \in 1..Len(text) : text[i] \in Whitespace

\* C25: when the OCR text handed to extract_data is empty or holds white space
\* only, the AI step ends without a call to the generative backend: no reply and
\* no backend failure is received, and the run goes on as an AI-step failure.
C25_BlankTextNoCall ==
    [][\A R \in Runners :
         (run[R].pc = "ai" /\ run'[R].pc # "ai" /\ Blank(run[R].ocr.text))
         => /\ run'[R].ai.kind = "none"
            /\ run'[R].pc = "caught"
            /\ run'[R].exc.type = "PE" /\ run'[R].exc.step = "ai"]_vars

\* the queue run of a document whose OCR text was blank has ended in error, no
\* backend call made
C25_Witness ==
    \E d \in DocIds :
        /\ Exists(d) /\ g[d].inv = "done" /\ g[d].qOut = "ai"
        /\ g[d].lastIn[1].kind = "ok" /\ g[d].lastIn[1].text # <<>>
        /\ Blank(g[d].lastIn[1].text)
        /\ g[d].lastIn[2].kind = "none"
        /\ docs[d].processing_status = "error"

\* the file that the OCR result o was read from
FileOf(o) == CHOOSE f \in Files : f.name = o.file

\* the page holds no detection that counts, or only empty texts
NoTextIn(page) ==
    \/ IsNone(page.lines)
    \/ \A i \in 1..Len(Val(page.lines)) :
         ~Val(page.lines)[i].valid \/ Val(page.lines)[i].text = <<>>

IsPdf(f) == Lower(f.ext) \in PDF_EXTENSIONS
IsImage(f) == Lower(f.ext) \in IMAGE_EXTENSIONS

\* the failures of the adapter: file missing, unsupported format, exception of
\* the conversion or of the OCR backend, no detection in the image, no page of
\* the PDF that yields text
AdapterFails(f) ==
    \/ ~f.exists
    \/ ~IsPdf(f) /\ ~IsImage(f)
    \/ f.convert = "raises"
    \/ \E i \in 1..Len(f.pages) : f.pages[i].raises
    \/ IsImage(f) /\ (IsNone(f.pages[1].lines) \/ \A i \in 1..Len(Val(f.pages[1].lines)) :
                                                      ~Val(f.pages[1].lines)[i].valid)
    \/ IsPdf(f) /\ \A i \in 1..Len(f.pages) : NoTextIn(f.pages[i])

\* C26: every failure of OCRService.extract_text reaches process as a result with
\* success = False, confidence 0 and an error message, never as an exception of
\* the adapter; a PDF without a page that yields text is a failure, never a
\* success with an empty text.
C26_OcrFailuresReturned ==
    \A R \in Runners :
        run[R].ocr.file # ""
        => LET o == run[R].ocr
               f == FileOf(o)
           IN  /\ o.kind \in {"ok", "fail"}
               /\ AdapterFails(f) => (o.kind = "fail" /\ o.confidence = 0 /\ o.error # "")
               /\ (IsPdf(f) /\ o.kind = "ok") => o.text # <<>>

\* runs have received the result of a PDF none of whose pages yields text, of a
\* file on which the OCR backend raised, and the failure is stored
C26_Witness ==
    \E d \in DocIds :
        /\ Exists(d) /\ g[d].inv = "done" /\ g[d].qOut = "ocr"
        /\ g[d].lastIn[1].file \in {"white", "crash", "jam"}
        /\ docs[d].ocr_confidence = Some(0)
        /\ docs[d].processing_status = "error"

\* C27: when the document of a dequeued identifier no longer exists, the worker
\* writes to no document and does not put the identifier back on the queue; found
\* missing by _process_single_document, the identifier is dropped at once, and the
\* worker thread stays alive for the next identifier.
C27_MissingDocumentSkipped ==
    [][\A w \in WorkerIds :
         LET R == <<"w", w>>
         IN  (run[R].pc # "idle" /\ ~Exists(run[R].doc) /\ run'[R] # run[R])
             => /\ docs' = docs
                /\ queue' = queue
                /\ run[R].pc = "mark" => run'[R].pc = "idle"
                /\ run'[R].pc = "idle" => (w \in alive' /\ running')]_vars

\* the first document was deleted while queued, the worker found it missing and
\* went on to the second one
C27_Witness ==
    /\ g[1].qOut = "missing"
    /\ docs[1].exists = "deleted"
    /\ g[2].inv = "done" /\ 1 \in g[2].finBefore
    /\ docs[2].processing_status \in Final

\* C28: no step of a reprocess call writes processing_status or processing_error:
\* while no queue run is in progress on the document, both columns keep their
\* values through every step of the call, whether it returns or raises.
C28_ReprocessKeepsStatus ==
    [][\A d \in DocIds :
         ( /\ run'[<<"rp", d>>] # run[<<"rp", d>>]
           /\ Active(d) \cap Workers = {}
           /\ docs'[d].exists = docs[d].exists )
         => /\ docs'[d].processing_status = docs[d].processing_status
            /\ docs'[d].processing_error = docs[d].processing_error]_vars

\* a reprocess call has raised ProcessingError on a document whose queue run had
\* completed, and the document still reads completed
C28_Witness ==
    \E d \in DocIds :
        /\ Exists(d) /\ Active(d) = {} /\ nrp[d] > 0
        /\ g[d].qOut = "merged" /\ g[d].lastOut \in {"ocr", "ai"}
        /\ docs[d].processing_status = "completed"
        /\ IsNone(docs[d].processing_error)

\* the number of times d is on the queue
TimesQueued(d) == Cardinality({i \in 1..Len(queue) : queue[i] = d})

\* add(d) has put d on the queue
Added(d) == up[d].pc \in {"start", "check", "spawn", "done"}

\* C29: every add(document_id) leads to exactly one dequeue and one invocation of
\* _process_single_document: an added identifier is on the queue once until it is
\* dequeued, is never dequeued again or taken by two workers, and under fair
\* scheduling its invocation starts and ends, whatever happened to the documents
\* before it and however the add calls interleave with the worker start.
C29_EachAddProcessedOnce ==
    /\ [](\A d \in DocIds :
            /\ TimesQueued(d) = (IF Added(d) /\ g[d].inv = "no" THEN 1 ELSE 0)
            /\ Cardinality({w \in WorkerIds : run[<<"w", w>>].pc # "idle"
                                              /\ run[<<"w", w>>].doc = d})
                 = (IF g[d].inv = "running" THEN 1 ELSE 0))
    /\ [][\A d \in DocIds :
            /\ g[d].inv = "running" => g'[d].inv \in {"running", "done"}
            /\ g[d].inv = "done" => g'[d].inv = "done"]_vars
    /\ \A d \in DocIds : Added(d) ~> (g[d].inv = "done")

\* both documents were added while no worker thread had been started yet; the
\* invocation of the first raised out of its handler and the second was processed
C29_Witness ==
    /\ g[1].qOut = "lost" /\ g[2].inv = "done" /\ 1 \in g[2].finBefore
    /\ g[2].before = {}
    /\ Cardinality(alive) = 1

\* C30: a step of a pipeline run on a document (queue or reprocess, whatever its
\* outcome) leaves every other document as it was: status, error text, OCR
\* text, extracted fields, items and tags.
C30_OtherDocumentsUntouched ==
    [][\A R \in Runners :
         (run[R].pc # "idle" /\ run'[R] # run[R])
         => \A b \in DocIds \ {run[R].doc} : docs'[b] = docs[b]]_vars

\* a reprocess run on the first document commits its items while the queue run of
\* the second document is in progress, and both documents hold their own row
C30_Witness ==
    \E w \in WorkerIds :
        /\ run[<<"rp", 1>>].pc = "tags"
        /\ run[<<"w", w>>].doc = 2 /\ run[<<"w", w>>].pc = "tags"
        /\ Len(docs[1].items) = 1 /\ Len(docs[2].items) = 1

====
